---- MODULE Spec2Model ----
(***************************************************************************)
(* AetherCode front end: the dashboard script (src/static/js/script.js),   *)
(* the chat module (src/unnamed/part_001) and the editor page logic        *)
(* (src/js/main.js), together with the indentation-stack parser of the     *)
(* repository listing described in spec.md section 4.1.                     *)
(*                                                                         *)
(* Strings the code takes apart (file names, listing lines) are sequences  *)
(* of one-character strings; strings the code only copies are TLA+ strings.*)
(***************************************************************************)
EXTENDS Integers, Sequences, FiniteSets, TLC

\* ------------------------------------------------------------------ bounds
\* Longest root sequence and longest child list of an input tree.
MaxRoots == 2
MaxChildren == 2
\* Most lines of a repository listing (the header line counted) and the
\* deepest indentation of a line.
MaxLines == 3
MaxIndent == 2
\* Most user actions on a page (button clicks and key presses that run a
\* handler).
MaxActions == 3

\* user actions on the page of main.js
MaxMainActions == 2

\* clicks on the copy button, and on the download button
MaxCopies == 2

Null == "null"

\* A JavaScript value that may be null or undefined: Absent, or Some(v).
Absent == [some |-> FALSE, v |-> <<>>]

Some(x) == [some |-> TRUE, v |-> x]

\* ------------------------------------------------------------- sequences
SeqsUpTo(S, n) == UNION {[1..k -> S] : k \in 0..n}

RECURSIVE Concat(_)
\* [a, b, ...].join('') of a sequence of sequences
Concat(ss) == IF ss = <<>> THEN <<>> ELSE Head(ss) \o Concat(Tail(ss))

RECURSIVE JoinSlash(_)
\* segs.join('/')
JoinSlash(segs) ==
    IF segs = <<>> THEN <<>>
    ELSE IF Len(segs) = 1 THEN segs[1]
    ELSE segs[1] \o <<"/">> \o JoinSlash(Tail(segs))

\* the index of the last "." of a character sequence, 0 when there is none
LastDot(s) ==
    LET dots == {i \in 1..Len(s) : s[i] = "."}
    IN IF dots = {} THEN 0 ELSE CHOOSE i \in dots : \A j \in dots : j <= i

\* String.prototype.toLowerCase on one character of the alphabet in use
ToLowerChar(c) ==
    CASE c = "A" -> "a"
      [] c = "J" -> "j"
      [] c = "S" -> "s"
      [] c = "M" -> "m"
      [] c = "D" -> "d"
      [] OTHER -> c

toLowerCase(s) == [i \in 1..Len(s) |-> ToLowerChar(s[i])]

\* fileName.split('.').pop(): the part after the last ".", the whole name
\* when it has no "."
SplitPop(s) == SubSeq(s, LastDot(s) + 1, Len(s))

\* --------------------------------------------------- script.js: icon lookup
\* own keys of the iconMap object literal of getFileIconClass
iconMap ==
    (<<"j","s">> :> "javascript") @@ (<<"t","s">> :> "typescript") @@
    (<<"p","y">> :> "python") @@ (<<"c","s","s">> :> "css") @@
    (<<"h","t","m","l">> :> "html") @@ (<<"h","t","m">> :> "html") @@
    (<<"j","s","o","n">> :> "json") @@ (<<"m","d">> :> "markdown") @@
    (<<"t","x","t">> :> "text") @@ (<<"p","n","g">> :> "image") @@
    (<<"j","p","g">> :> "image") @@ (<<"j","p","e","g">> :> "image") @@
    (<<"g","i","f">> :> "image") @@ (<<"s","v","g">> :> "image")

\* own keys of the iconMap object literal of getFileIcon
fileIconMap ==
    (<<"j","s">> :> "fa-file-code") @@ (<<"t","s">> :> "fa-file-code") @@
    (<<"p","y">> :> "fa-file-code") @@ (<<"c","s","s">> :> "fa-file-code") @@
    (<<"h","t","m","l">> :> "fa-file-code") @@ (<<"h","t","m">> :> "fa-file-code") @@
    (<<"j","s","o","n">> :> "fa-file-code") @@ (<<"m","d">> :> "fa-file-text") @@
    (<<"t","x","t">> :> "fa-file-text") @@ (<<"p","n","g">> :> "fa-file-image") @@
    (<<"j","p","g">> :> "fa-file-image") @@ (<<"j","p","e","g">> :> "fa-file-image") @@
    (<<"g","i","f">> :> "fa-file-image") @@ (<<"s","v","g">> :> "fa-file-image")

\* What a property read on an object literal finds on Object.prototype when
\* the key is no own key.  Only the all-lower-case property names can be
\* produced by toLowerCase(); each of them holds a truthy value, shown here
\* as the text that value turns into inside a template string.
ObjectPrototype ==
    (<<"c","o","n","s","t","r","u","c","t","o","r">> :> "function Object() { [native code] }") @@
    (<<"_","_","p","r","o","t","o","_","_">> :> "[object Object]")

\* obj[key] || dflt for an object literal obj
Lookup(obj, key, dflt) ==
    IF key \in DOMAIN obj THEN obj[key]
    ELSE IF key \in DOMAIN ObjectPrototype THEN ObjectPrototype[key]
    ELSE dflt

getFileIconClass(fileName) == Lookup(iconMap, toLowerCase(SplitPop(fileName)), "text")

getFileIcon(fileName) == Lookup(fileIconMap, toLowerCase(SplitPop(fileName)), "fa-file")

\* the category strings getFileIconClass is meant to return
Categories == {iconMap[k] : k \in DOMAIN iconMap} \cup {"text"}

\* ---------------------------------------------------- script.js: renderer
\* item.children && item.children.length > 0
hasChildren(item) == item.children.some /\ Len(item.children.v) > 0

RECURSIVE renderFileItem(_)
\* The markup of one item: its file-item element, followed by a
\* file-children element (holding the children's markup) when it has children.
renderFileItem(item) ==
    LET isFolder == item.type = "dir"
        row == [tag |-> "file-item",
                kind |-> IF isFolder THEN "folder" ELSE "file",
                path |-> item.path,
                type |-> item.type,
                toggleHidden |-> ~(isFolder /\ hasChildren(item)),
                iconClass |-> getFileIconClass(item.name),
                icon |-> IF isFolder THEN "fa-folder" ELSE getFileIcon(item.name),
                name |-> item.name]
    IN IF hasChildren(item)
       THEN <<row, [tag |-> "file-children", collapsed |-> TRUE,
                    kids |-> Concat([i \in 1..Len(item.children.v) |->
                                        renderFileItem(item.children.v[i])])]>>
       ELSE <<row>>

NoFilesPlaceholder == [tag |-> "file-tree-placeholder", text |-> "No files found in repository."]

\* the file-tree container of a non-empty item sequence
FileTreeOf(its) ==
    [tag |-> "file-tree",
     kids |-> Concat([i \in 1..Len(its) |-> renderFileItem(its[i])])]

renderFileTreeUnguarded(items) == FileTreeOf(items.v)

\* items is null/undefined (Absent) or an array (Some)
renderFileTree(items) ==
    IF ~items.some \/ Len(items.v) = 0
    THEN NoFilesPlaceholder
    ELSE FileTreeOf(items.v)

\* --------------------------------------------------------- input trees
\* Names of the items of input trees, and the names given to getFileIconClass.
TreeNames == { <<"b">>, <<"a",".","j","s">> }

IconAlphabet == {"a", "J", "s", "."}

IconNames ==
    (SeqsUpTo(IconAlphabet, 3) \ {<<>>}) \cup
    { <<"c","o","n","s","t","r","u","c","t","o","r">>,
      <<"a",".","_","_","p","r","o","t","o","_","_">>,
      <<"R","E","A","D","M","E",".","M","D">>,
      <<"a",".","j","s",".","t","x","t">>,
      <<"M","a","k","e","f","i","l","e">> }

\* a file item: no children property
FileItem(n, p) == [name |-> n, type |-> "file", path |-> JoinSlash(Append(p, n)), children |-> Absent]

DirItem(n, p, ch) == [name |-> n, type |-> "dir", path |-> JoinSlash(Append(p, n)), children |-> Some(ch)]

\* the items a folder at path p can hold: files and empty folders
Leaves(p) == {FileItem(n, p) : n \in TreeNames} \cup {DirItem(n, p, <<>>) : n \in TreeNames}

\* root items: leaves, and folders holding 1..MaxChildren leaves
RootItems ==
    Leaves(<<>>) \cup
    UNION {{DirItem(n, <<>>, ch) : ch \in SeqsUpTo(Leaves(<<n>>), MaxChildren) \ {<<>>}} : n \in TreeNames}

Trees == {Some(t) : t \in SeqsUpTo(RootItems, MaxRoots)} \cup {Absent}

\* ------------------------------------------ spec.md 4.1: IndentedTreeParser
Front(s) == SubSeq(s, 1, Len(s) - 1)

\* width of the leading whitespace of a line
LeadingSpaces(l) ==
    LET nonsp == {i \in 1..Len(l) : l[i] # " "}
    IN IF nonsp = {} THEN Len(l)
       ELSE (CHOOSE i \in nonsp : \A j \in nonsp : i <= j) - 1

\* the line without its leading and trailing whitespace
Trim(l) ==
    LET nonsp == {i \in 1..Len(l) : l[i] # " "}
    IN IF nonsp = {} THEN <<>>
       ELSE SubSeq(l, CHOOSE i \in nonsp : \A j \in nonsp : i <= j,
                      CHOOSE i \in nonsp : \A j \in nonsp : j <= i)

Contains(s, sub) ==
    \E i \in 1..(Len(s) - Len(sub) + 1) : SubSeq(s, i, i + Len(sub) - 1) = sub

HeaderLine == <<"R","e","p","o","s","i","t","o","r","y"," ","s","t","r","u","c","t","u","r","e",":">>

MoreFilesMarker == <<"m","o","r","e"," ","f","i","l","e","s">>

IsSentinel(name) == Contains(name, MoreFilesMarker)

IsFolderName(name) == name[Len(name)] = "/"

\* the name without the separator that marks a folder
CleanName(name) == IF IsFolderName(name) THEN Front(name) ELSE name

FilePathOfNameAlone(prefix, name) == <<"/">> \o name

\* path of a file: the prefix and the name joined, after one leading separator
FilePath(prefix, name) == <<"/">> \o JoinSlash(Append(prefix, name))

FileNode(name, path, indent) == [kind |-> "file", name |-> name, path |-> path, indent |-> indent]

FolderNode(name, indent) == [kind |-> "folder", name |-> name, children |-> <<>>, indent |-> indent]

RECURSIVE AppendAt(_, _, _)
\* container.push(node), the container being reached from the root sequence
\* by the child indices in cpath
AppendAt(nodes, cpath, node) ==
    IF cpath = <<>> THEN Append(nodes, node)
    ELSE [nodes EXCEPT ![Head(cpath)] =
             [@ EXCEPT !.children = AppendAt(@, Tail(cpath), node)]]

RECURSIVE ContainerAt(_, _)
ContainerAt(nodes, cpath) ==
    IF cpath = <<>> THEN nodes
    ELSE ContainerAt(nodes[Head(cpath)].children, Tail(cpath))

\* the bottom frame: the root sequence, below every real indent
RootFrame == [container |-> <<>>, indentLevel |-> -1]

RECURSIVE PopCountStrict(_, _)
PopCountStrict(stk, indent) ==
    IF Len(stk) > 1 /\ stk[Len(stk)].indentLevel > indent
    THEN 1 + PopCountStrict(Front(stk), indent)
    ELSE 0

RECURSIVE PopCount(_, _)
\* how many frames "pop while the top frame's indentLevel >= indent" removes
PopCount(stk, indent) ==
    IF Len(stk) > 1 /\ stk[Len(stk)].indentLevel >= indent
    THEN 1 + PopCount(Front(stk), indent)
    ELSE 0

PrefixKept(prefix, pops) == prefix

\* the path prefix shortened by the number of pops
PrefixAfterPops(prefix, pops) == SubSeq(prefix, 1, Len(prefix) - pops)

SentinelPopsFrames(st, indent) ==
    LET pops == PopCount(st.stack, indent)
    IN [st EXCEPT !.stack = SubSeq(st.stack, 1, Len(st.stack) - pops),
                  !.pathPrefix = PrefixAfterPops(st.pathPrefix, pops)]

\* a sentinel line: no node, stack and prefix untouched
SentinelStep(st, indent) == st

\* steps 1-6 of the algorithm on one retained line; st = [tree, stack, pathPrefix]
ParseStep(st, line) ==
    LET indent == LeadingSpaces(line)
        name == Trim(line)
    IN IF IsSentinel(name) THEN SentinelStep(st, indent)
       ELSE
         LET pops == PopCount(st.stack, indent)
             stk == SubSeq(st.stack, 1, Len(st.stack) - pops)
             prefix == PrefixAfterPops(st.pathPrefix, pops)
             parent == stk[Len(stk)].container
             clean == CleanName(name)
         IN IF IsFolderName(name)
            THEN [tree |-> AppendAt(st.tree, parent, FolderNode(clean, indent)),
                  stack |-> Append(stk,
                               [container |-> Append(parent, Len(ContainerAt(st.tree, parent)) + 1),
                                indentLevel |-> indent]),
                  pathPrefix |-> Append(prefix, clean)]
            ELSE [tree |-> AppendAt(st.tree, parent, FileNode(clean, FilePath(prefix, clean), indent)),
                  stack |-> stk,
                  pathPrefix |-> prefix]

ParseStart == [tree |-> <<>>, stack |-> <<RootFrame>>, pathPrefix |-> <<>>]

\* the lines kept for indentation analysis: the header line dropped when it
\* is the first line, blank lines dropped
RetainedLines(ls) ==
    LET body == IF ls # <<>> /\ Trim(ls[1]) = HeaderLine THEN Tail(ls) ELSE ls
    IN SelectSeq(body, LAMBDA l : Trim(l) # <<>>)

RECURSIVE ParseLines(_, _)
ParseLines(st, ls) == IF ls = <<>> THEN st ELSE ParseLines(ParseStep(st, Head(ls)), Tail(ls))

\* the whole parse of a text given as its lines
parseFileStructure(ls) == ParseLines(ParseStart, RetainedLines(ls)).tree

\* ------------------------------------------------------- listing inputs
Spaces(k) == [i \in 1..k |-> " "]

SentinelBody == <<"(","m","o","r","e"," ","f","i","l","e","s"," ","n","o","t"," ","s","h","o","w","n",")">>

\* what a line holds after its indentation: a file, a folder, a folder line
\* that is only the separator, a file whose name holds a separator, or the
\* sentinel
LineBodies == { <<"a">>, <<"d","/">>, <<"/">>, <<"d","/","a">>, SentinelBody }

\* the lines of a listing: indented bodies, and a whitespace-only line
ListingLines == {Spaces(k) \o b : k \in 0..MaxIndent, b \in LineBodies} \cup {<<" ">>}

Listings ==
    {Some(ls) : ls \in SeqsUpTo(ListingLines, MaxLines)} \cup
    {Some(<<HeaderLine>> \o ls) : ls \in SeqsUpTo(ListingLines, MaxLines - 1)}

\* ------------------------------------------------------------ variables
VARIABLES renderIn, renderOut, iconIn, iconOut

\* the parser: the text handed in (its lines, or Absent for a non-string),
\* the retained lines, the number of lines consumed, the tree built so far,
\* the frame stack and the accumulated path prefix
VARIABLES text, lines, lineNo, tree, stack, pathPrefix, pstate

\* which script's page is loaded: "dashboard" (script.js lines 1-643), "chat"
\* (part_001), "main" (main.js), "none" when only a function is exercised
VARIABLE page

\* script.js, dashboard: the state of lines 46-48, the elements of lines 6-24
\* and the CodeMirror instance of line 27
VARIABLES currentProjectId, currentRepoUrl, repoUrlInput, userInput,
          analyzeBtn, sendBtn, projectInfo, landingHidden, dashboardHidden,
          fileExplorer, codeEditor, codeViewer, chatContainer, liveMinutes,
          todoList

\* script.js, dashboard: alert() dialogs shown so far, the handleRepoAnalysis
\* invocation, the loadFileContent and handleSendMessage invocations in
\* flight, the greeting overlays waiting for their dismissal timer, and
\* Date.now()
VARIABLES alerts, analysis, loads, sends, greetings, now

\* script.js, dashboard: the export button and whether the reports modal,
\* filled with its download options, is displayed
VARIABLES exportBtn, reportsModal

\* part_001, chat module: the chat input, the children of .chat-messages, the
\* state of lines 13-14, the getAiResponse invocations in flight, and the
\* number that names the next element created
VARIABLES chatInput, chatMessages, chatHistory, isAiTyping, aiCalls, nextId

\* main.js: the chat input, the children of .chat-messages,
\* window.conversationHistory, the sendChatMessage invocations in flight, the
\* submit button and the analyzeCode invocations in flight, the runCode
\* invocations in flight, the output pane, status and time, window.editor,
\* window.lastAnalysis, and whether the welcome timer of line 45 is pending
VARIABLES mainInput, mainChat, conversationHistory, chatCalls, submitBtn,
          submits, runs, output, executionStatus, executionTime, windowEditor,
          lastAnalysis, welcomeTimer

\* part_000, on the page of main.js: the value of the language select, the
\* mode option and the content of the CodeMirror instance (Absent while there
\* is no instance), and the FileReader reads in flight
VARIABLES languageSelect, editorMode, editorValue, reads

\* the page of the second script of script.js: the active tab, whether the
\* page has the element the editor is created in, and for the specification
\* and the tests: the generate button, the container of the generated text,
\* the download or copy button with the listener it has, the requests in
\* flight, what was copied and what downloadSpec was called with, and (as
\* bookkeeping) how many generations were started and which one succeeded last
VARIABLES activeTab, codeEditorElement, generateBtn, generated, actBtn, genCalls,
          clipboard, downloads, generations

\* bookkeeping: user actions taken so far (by kind), the invocations that have
\* run to their end, the file list of the last analysis response, and the
\* invocation that ended last: its number, its handler, whether its HTTP
\* response was OK, what became of the body ("none": not read, "bad": not
\* parsable, "data") and the data read
VARIABLES acts, settled, lastFiles, lastDone

renderVars == <<renderIn, renderOut, iconIn, iconOut>>

parseVars == <<text, lines, lineNo, tree, stack, pathPrefix, pstate>>

dashState == <<currentProjectId, currentRepoUrl, repoUrlInput, userInput,
               analyzeBtn, sendBtn, projectInfo, landingHidden, dashboardHidden,
               fileExplorer, codeEditor, codeViewer, chatContainer, liveMinutes,
               todoList>>

dashCalls == <<alerts, analysis, loads, sends, greetings, now>>

chatVars == <<chatInput, chatMessages, chatHistory, isAiTyping, aiCalls, nextId>>

mainVars == <<mainInput, mainChat, conversationHistory, chatCalls, submitBtn,
              submits, runs, output, executionStatus, executionTime, windowEditor,
              lastAnalysis, welcomeTimer>>

editorVars == <<languageSelect, editorMode, editorValue, reads>>

exportVars == <<exportBtn, reportsModal>>

toolVars == <<activeTab, codeEditorElement, generateBtn, generated, actBtn, genCalls,
             clipboard, downloads, generations>>

ghostVars == <<acts, settled, lastFiles, lastDone>>

uiVars == <<page, dashState, dashCalls, exportVars, toolVars, chatVars, mainVars, editorVars,
           ghostVars>>

vars == <<renderVars, parseVars, uiVars>>

RenderIdle ==
    /\ renderIn = Absent /\ renderOut = <<>> /\ iconIn = <<"a">> /\ iconOut = Null

ParseIdle ==
    /\ text = Absent /\ lines = <<>> /\ lineNo = 0 /\ tree = <<>>
    /\ stack = <<RootFrame>> /\ pathPrefix = <<>> /\ pstate = "idle"

\* ------------------------------------------- script.js: the file explorer DOM
RECURSIVE ToDom(_)
\* the elements the browser builds from markup: each file-item row starts
\* with no listeners, unselected, its toggle not expanded
ToDom(kids) ==
    [i \in 1..Len(kids) |->
        IF kids[i].tag = "file-item"
        THEN kids[i] @@ [clickHandlers |-> 0, toggleHandlers |-> 0,
                         selected |-> FALSE, toggleExpanded |-> FALSE]
        ELSE [kids[i] EXCEPT !.kids = ToDom(@)]]

\* element.innerHTML = markup
SetInnerHTML(markup) ==
    IF markup.tag = "file-tree" THEN [markup EXCEPT !.kids = ToDom(@)] ELSE markup

RECURSIVE AddListeners(_)
\* one click listener more on every .file-item and on every .folder-toggle
AddListeners(kids) ==
    [i \in 1..Len(kids) |->
        IF kids[i].tag = "file-item"
        THEN [kids[i] EXCEPT !.clickHandlers = @ + 1, !.toggleHandlers = @ + 1]
        ELSE [kids[i] EXCEPT !.kids = AddListeners(@)]]

addFileTreeEventListenersTwice(el) ==
    IF el.tag = "file-tree" THEN [el EXCEPT !.kids = AddListeners(AddListeners(@))] ELSE el

\* the .file-item and .folder-toggle elements of the document are those of
\* the file explorer
addFileTreeEventListeners(el) ==
    IF el.tag = "file-tree" THEN [el EXCEPT !.kids = AddListeners(@)] ELSE el

\* the file explorer element after updateFileExplorer(items)
updateFileExplorer(items) == addFileTreeEventListeners(SetInnerHTML(renderFileTree(items)))

RECURSIVE RowPositions(_)
\* where the file-item rows are: the child indices leading to each
RowPositions(kids) ==
    UNION {IF kids[i].tag = "file-item" THEN {<<i>>}
           ELSE {<<i>> \o p : p \in RowPositions(kids[i].kids)} : i \in 1..Len(kids)}

RECURSIVE ElementAt(_, _)
ElementAt(kids, pos) ==
    IF Len(pos) = 1 THEN kids[pos[1]] ELSE ElementAt(kids[pos[1]].kids, Tail(pos))

RECURSIVE AllRows(_)
\* every file-item row, in document order
AllRows(kids) ==
    Concat([i \in 1..Len(kids) |->
               IF kids[i].tag = "file-item" THEN <<kids[i]>> ELSE AllRows(kids[i].kids)])

\* the selection left as it is
DeselectNothing(kids) == kids

RECURSIVE Deselect(_)
\* classList.remove('selected') on every selected .file-item
Deselect(kids) ==
    [i \in 1..Len(kids) |->
        IF kids[i].tag = "file-item" THEN [kids[i] EXCEPT !.selected = FALSE]
        ELSE [kids[i] EXCEPT !.kids = Deselect(@)]]

\* the toggle's mark alone flipped
ToggleAtMarkOnly(kids, i) ==
    IF i < Len(kids) /\ kids[i + 1].tag = "file-children"
    THEN [kids EXCEPT ![i].toggleExpanded = ~@]
    ELSE kids

\* the sibling list kids with the row at index i and the file-children
\* element that follows it (if one does) toggled
ToggleAt(kids, i) ==
    IF i < Len(kids) /\ kids[i + 1].tag = "file-children"
    THEN [kids EXCEPT ![i].toggleExpanded = ~@, ![i + 1].collapsed = ~@]
    ELSE kids

RECURSIVE RowClicked(_, _)
\* the row listener of lines 494-520 on the row at pos, the selection having
\* been cleared: select it, and toggle it when it is a folder
RowClicked(kids, pos) ==
    IF Len(pos) = 1
    THEN LET sel == [kids EXCEPT ![pos[1]].selected = TRUE]
         IN IF kids[pos[1]].type = "dir" THEN ToggleAt(sel, pos[1]) ELSE sel
    ELSE [kids EXCEPT ![pos[1]].kids = RowClicked(@, Tail(pos))]

RECURSIVE ToggleClicked(_, _)
\* the toggle listener of lines 525-534 on the toggle of the row at pos
ToggleClicked(kids, pos) ==
    IF Len(pos) = 1 THEN ToggleAt(kids, pos[1])
    ELSE [kids EXCEPT ![pos[1]].kids = ToggleClicked(@, Tail(pos))]

RECURSIVE Times(_, _, _, _)
\* the listeners of one element run one after the other: which is "row" or
\* "toggle", n the number of listeners on the element
Times(which, n, kids, pos) ==
    IF n = 0 THEN kids
    ELSE Times(which, n - 1,
               IF which = "row" THEN RowClicked(Deselect(kids), pos) ELSE ToggleClicked(kids, pos),
               pos)

\* ------------------------------------------------ script.js: page contents
ExplorerPlaceholder == [tag |-> "file-tree-placeholder", text |-> "Repository files will appear here..."]

ChatWelcome == [cls |-> "welcome-message", id |-> -1,
                text |-> <<"Welcome to AetherCode! I'll analyze your code and ask relevant questions to help improve it.">>]

CodePlaceholder == [kind |-> "placeholder", v |-> <<"// Selected code will appear here">>]

MinutesPlaceholder == [kind |-> "placeholder", v |-> <<"Discussion points will appear as you chat with the AI...">>]

TodoPlaceholder == [kind |-> "placeholder", v |-> <<"Action items will be added here...">>]

NoProjectLabel == <<"Project: Not Selected">>

\* own keys of the modeMap object literal of getCodeMirrorMode
modeMap ==
    (<<"j","s">> :> "javascript") @@ (<<"j","s","x">> :> "javascript") @@
    (<<"t","s">> :> "javascript") @@ (<<"t","s","x">> :> "javascript") @@
    (<<"p","y">> :> "python") @@ (<<"h","t","m","l">> :> "htmlmixed") @@
    (<<"h","t","m">> :> "htmlmixed") @@ (<<"c","s","s">> :> "css") @@
    (<<"s","c","s","s">> :> "css") @@ (<<"s","a","s","s">> :> "css") @@
    (<<"l","e","s","s">> :> "css") @@ (<<"j","s","o","n">> :> "javascript") @@
    (<<"x","m","l">> :> "xml") @@ (<<"y","a","m","l">> :> "yaml") @@
    (<<"y","m","l">> :> "yaml") @@ (<<"m","d">> :> "markdown") @@
    (<<"m","a","r","k","d","o","w","n">> :> "markdown") @@ (<<"s","h">> :> "shell") @@
    (<<"b","a","s","h">> :> "shell") @@ (<<"z","s","h">> :> "shell") @@
    (<<"f","i","s","h">> :> "shell") @@ (<<"t","x","t">> :> "text") @@
    (<<"l","o","g">> :> "text") @@ (<<"c","f","g">> :> "text") @@
    (<<"c","o","n","f">> :> "text") @@ (<<"i","n","i">> :> "text")

getCodeMirrorMode(filePath) == Lookup(modeMap, toLowerCase(SplitPop(filePath)), "text")

\* url.split('/').pop()
LastSlash(s) ==
    LET sl == {i \in 1..Len(s) : s[i] = "/"}
    IN IF sl = {} THEN 0 ELSE CHOOSE i \in sl : \A j \in sl : j <= i

ProjectName(url) == SubSeq(url, LastSlash(url) + 1, Len(url))

\* a setLoading that disables the button whatever it is asked
setLoadingForGood(button, txt, isLoading) ==
    [disabled |-> TRUE, loading |-> TRUE,
     text |-> IF txt # "" THEN txt ELSE button.text]

\* setLoading(button, text, isLoading): the text is replaced when one is given
setLoading(button, txt, isLoading) ==
    [disabled |-> isLoading, loading |-> isLoading,
     text |-> IF txt # "" THEN txt ELSE button.text]

\* showCode(codeSnippet, filePath): into the editor when it exists, into the
\* code viewer otherwise; the pair <<codeEditor, codeViewer>> afterwards
showCode(editor, viewer, snippet, filePath) ==
    IF editor.some
    THEN <<Some([mode |-> getCodeMirrorMode(filePath), value |-> snippet]), viewer>>
    ELSE <<editor, snippet>>

userMessage(m) == [cls |-> "user-message", id |-> -1, text |-> m]

aiMessage(m) == [cls |-> "ai-message", id |-> -1, text |-> m]

thinkingElement(id) == [cls |-> "thinking-animation", id |-> id, text |-> <<"Analyzing your question...">>]

welcomeMessage(projectName) == [cls |-> "assistant-message welcome-message", id |-> -1, text |-> projectName]

\* document.getElementById(id).remove(): the first element with that id
removeThinkingAnimation(chat, id) ==
    LET hits == {i \in 1..Len(chat) : chat[i].cls = "thinking-animation" /\ chat[i].id = id}
    IN IF hits = {} THEN chat
       ELSE LET k == CHOOSE i \in hits : \A j \in hits : i <= j
            IN SubSeq(chat, 1, k - 1) \o SubSeq(chat, k + 1, Len(chat))

\* insights.split('\n').filter(item => item.trim()), insights given as lines
todoItems(insights) == SelectSeq(insights, LAMBDA l : Trim(l) # <<>>)

\* ------------------------------------------------- what the backend sends
UrlInputs == { <<>>, <<" ">>, <<"o","/","r">> }

MessageInputs == { <<>>, <<"h","i">> }

ChatInputs == MessageInputs \cup { <<" ">> }

ProjectIds == {"p1"}

TreeOne == <<DirItem(<<"b">>, <<>>, <<FileItem(<<"a",".","j","s">>, <<<<"b">>>>)>>),
             FileItem(<<"a",".","j","s">>, <<>>)>>

\* a single folder without children
TreeTwo == <<DirItem(<<"c">>, <<>>, <<>>)>>

\* data.files of an analysis response: missing, empty, or a tree
FileLists == {Absent, Some(<<>>), Some(TreeOne), Some(TreeTwo)}

AnalyzeData == [project_id : ProjectIds, files : FileLists]

\* the error text handleApiError makes of a non-OK response
ApiErrors == {"An unknown error occurred."}

ChatData ==
    {[response |-> <<"reply">>, mom |-> Absent, insights |-> Absent],
     [response |-> <<"reply">>, mom |-> Some(<<"minutes">>),
      insights |-> Some(<< <<"t","o">>, <<" ">> >>)]}

IdleCall == [pc |-> "idle", url |-> <<>>, sent |-> <<>>, failed |-> FALSE, errs |-> 0]

ActKinds == {"user", "analysisOk"}

\* ----------------------------------------------------- script.js: dashboard
\* the dashboard page after DOMContentLoaded
DashStart ==
    /\ currentProjectId = Null /\ currentRepoUrl = Null
    /\ repoUrlInput = <<>> /\ userInput = <<>>
    /\ analyzeBtn = [disabled |-> FALSE, loading |-> FALSE, text |-> "Analyze"]
    /\ sendBtn = [disabled |-> FALSE, loading |-> FALSE, text |-> "Send"]
    /\ projectInfo = NoProjectLabel
    /\ landingHidden = FALSE /\ dashboardHidden = TRUE
    /\ fileExplorer = ExplorerPlaceholder
    /\ codeEditor = Absent
    /\ codeViewer = CodePlaceholder
    /\ chatContainer = <<ChatWelcome>>
    /\ liveMinutes = MinutesPlaceholder
    /\ todoList = TodoPlaceholder
    /\ alerts = <<>>
    /\ analysis = IdleCall
    /\ loads = <<>> /\ sends = <<>> /\ greetings = <<>>
    /\ now = 0

GhostStart ==
    /\ acts = [k \in ActKinds |-> 0]
    /\ settled = {}
    /\ lastFiles = Absent
    /\ lastDone = [n |-> 0, h |-> "none", httpOk |-> FALSE, body |-> "none", data |-> <<>>]

OffExport == <<renderVars, parseVars, toolVars, chatVars, mainVars, editorVars>>

OffDashboard == <<OffExport, exportVars>>

\* the export button as the page shows it, the reports modal not displayed
ExportStart ==
    /\ exportBtn = [disabled |-> FALSE, loading |-> FALSE, text |-> "Export Reports"]
    /\ reportsModal = FALSE

Done(h, httpOk, body, data) ==
    [n |-> lastDone.n + 1, h |-> h, httpOk |-> httpOk, body |-> body, data |-> data]

Settle(h, c) == settled \cup {[h |-> h, sent |-> c.sent, failed |-> c.failed, errs |-> c.errs]}

RemoveAt(s, i) == SubSeq(s, 1, i - 1) \o SubSeq(s, i + 1, Len(s))

\* the setTimeout of lines 30-44: the CodeMirror instance comes to exist
EditorInit ==
    /\ page = "dashboard" /\ ~codeEditor.some
    /\ codeEditor' = Some([mode |-> "javascript", value |-> [kind |-> "textarea", v |-> <<>>]])
    /\ UNCHANGED <<page, currentProjectId, currentRepoUrl, repoUrlInput, userInput,
                   analyzeBtn, sendBtn, projectInfo, landingHidden, dashboardHidden,
                   fileExplorer, codeViewer, chatContainer, liveMinutes, todoList,
                   dashCalls, ghostVars, OffDashboard>>

Bump(k) == [acts EXCEPT ![k] = @ + 1]

\* ---- handleRepoAnalysis, lines 103-143
\* click on the analyze button, the URL field holding what the user typed: an
\* empty URL is answered by an alert, any other URL starts the request
ClickAnalyze ==
    /\ page = "dashboard" /\ ~landingHidden /\ ~analyzeBtn.disabled
    /\ analysis.pc = "idle"
    /\ acts["user"] < MaxActions
    /\ acts' = Bump("user")
    /\ \E typed \in UrlInputs :
         LET url == Trim(typed)
         IN /\ repoUrlInput' = typed
            /\ IF url = <<>>
               THEN /\ alerts' = Append(alerts, <<"Please enter a GitHub repository URL.">>)
                    /\ UNCHANGED <<analyzeBtn, analysis>>
               ELSE /\ analyzeBtn' = setLoading(analyzeBtn, "Analyzing...", TRUE)
                    /\ analysis' = [pc |-> "fetch", url |-> url, sent |-> <<"/repo/analyze">>,
                                    failed |-> FALSE, errs |-> 0]
                    /\ UNCHANGED alerts
    /\ UNCHANGED <<page, currentProjectId, currentRepoUrl, userInput,
                   sendBtn, projectInfo, landingHidden, dashboardHidden,
                   fileExplorer, codeEditor, codeViewer, chatContainer, liveMinutes,
                   todoList, loads, sends, greetings, now, settled, lastFiles, lastDone, OffDashboard>>

\* a catch block that also forgets the project
AnalysisCatchClearing(msg) ==
    /\ alerts' = Append(alerts, <<"Error analyzing repository: ", msg>>)
    /\ analyzeBtn' = setLoading(analyzeBtn, "Analyze", FALSE)
    /\ analysis' = IdleCall
    /\ currentProjectId' = Null
    /\ settled' = Settle("handleRepoAnalysis", [analysis EXCEPT !.failed = TRUE, !.errs = @ + 1])
    /\ lastDone' = Done("handleRepoAnalysis", analysis.pc = "json",
                         IF analysis.pc = "json" THEN "bad" ELSE "none", <<>>)
    /\ UNCHANGED <<page, currentRepoUrl, repoUrlInput, userInput,
                   sendBtn, projectInfo, landingHidden, dashboardHidden,
                   fileExplorer, codeEditor, codeViewer, chatContainer, liveMinutes,
                   todoList, loads, sends, greetings, now, acts, lastFiles, OffDashboard>>

\* the catch and finally blocks of handleRepoAnalysis
AnalysisCatch(msg) ==
    /\ alerts' = Append(alerts, <<"Error analyzing repository: ", msg>>)
    /\ analyzeBtn' = setLoading(analyzeBtn, "Analyze", FALSE)
    /\ analysis' = IdleCall
    /\ settled' = Settle("handleRepoAnalysis", [analysis EXCEPT !.failed = TRUE, !.errs = @ + 1])
    /\ lastDone' = Done("handleRepoAnalysis", analysis.pc = "json",
                         IF analysis.pc = "json" THEN "bad" ELSE "none", <<>>)
    /\ UNCHANGED <<page, currentProjectId, currentRepoUrl, repoUrlInput, userInput,
                   sendBtn, projectInfo, landingHidden, dashboardHidden,
                   fileExplorer, codeEditor, codeViewer, chatContainer, liveMinutes,
                   todoList, loads, sends, greetings, now, acts, lastFiles, OffDashboard>>

\* the fetch of line 113 settles: rejected, answered non-OK, or answered OK
AnalyzeFetchSettles ==
    /\ page = "dashboard" /\ analysis.pc = "fetch"
    /\ \/ AnalysisCatch("Failed to fetch")
       \/ /\ \/ analysis' = [analysis EXCEPT !.pc = "errjson", !.failed = TRUE]
             \/ analysis' = [analysis EXCEPT !.pc = "json"]
          /\ UNCHANGED <<page, dashState, alerts, loads, sends, greetings, now,
                         ghostVars, OffDashboard>>

\* handleApiError has read the body of the non-OK response
AnalyzeErrorBody ==
    /\ page = "dashboard" /\ analysis.pc = "errjson"
    /\ \E msg \in ApiErrors : AnalysisCatch(msg)

\* response.json() of line 124 settles: the body does not parse, or it is data
AnalyzeBody ==
    /\ page = "dashboard" /\ analysis.pc = "json"
    /\ \/ AnalysisCatch("Unexpected token < in JSON")
       \/ \E data \in AnalyzeData :
            LET name == ProjectName(analysis.url)
            IN /\ currentProjectId' = data.project_id
               /\ currentRepoUrl' = analysis.url
               /\ greetings' = Append(greetings, name)
               /\ projectInfo' = <<"Project: ">> \o name
               /\ fileExplorer' = IF data.files.some
                                  THEN updateFileExplorer(data.files)
                                  ELSE fileExplorer
               /\ analyzeBtn' = setLoading(analyzeBtn, "Analyze", FALSE)
               /\ analysis' = IdleCall
               /\ settled' = Settle("handleRepoAnalysis", analysis)
               /\ lastDone' = Done("handleRepoAnalysis", TRUE, "data", data)
               /\ acts' = Bump("analysisOk")
               /\ lastFiles' = data.files
               /\ UNCHANGED <<page, repoUrlInput, userInput, sendBtn, landingHidden,
                              dashboardHidden, codeEditor, codeViewer, chatContainer,
                              liveMinutes, todoList, alerts, loads, sends, now, OffDashboard>>

\* ---- showAnalysisGreeting, lines 610-619: the dismissal timers of a greeting
GreetingDismiss ==
    /\ page = "dashboard" /\ greetings # <<>>
    /\ landingHidden' = TRUE
    /\ dashboardHidden' = FALSE
    /\ chatContainer' = Append(chatContainer, welcomeMessage(Head(greetings)))
    /\ greetings' = Tail(greetings)
    /\ UNCHANGED <<page, currentProjectId, currentRepoUrl, repoUrlInput, userInput,
                   analyzeBtn, sendBtn, projectInfo, fileExplorer, codeEditor,
                   codeViewer, liveMinutes, todoList, alerts, analysis, loads, sends,
                   now, ghostVars, OffDashboard>>

\* ---- resetToLandingScreen, lines 318-332
ClickNewAnalysis ==
    /\ page = "dashboard" /\ ~dashboardHidden
    /\ acts["user"] < MaxActions
    /\ acts' = Bump("user")
    /\ dashboardHidden' = TRUE
    /\ landingHidden' = FALSE
    /\ currentProjectId' = Null
    /\ currentRepoUrl' = Null
    /\ repoUrlInput' = <<>>
    /\ projectInfo' = NoProjectLabel
    /\ chatContainer' = <<ChatWelcome>>
    /\ fileExplorer' = ExplorerPlaceholder
    /\ codeViewer' = CodePlaceholder
    /\ liveMinutes' = MinutesPlaceholder
    /\ todoList' = TodoPlaceholder
    /\ UNCHANGED <<page, userInput, analyzeBtn, sendBtn, codeEditor, dashCalls,
                   settled, lastFiles, lastDone, OffDashboard>>

\* ---- the listeners of addFileTreeEventListeners, lines 491-536
\* click on a file-item row: every listener of the row selects it, then
\* loads it (a file) or toggles it (a folder)
ClickFileItem ==
    /\ page = "dashboard" /\ ~dashboardHidden
    /\ fileExplorer.tag = "file-tree"
    /\ acts["user"] < MaxActions
    /\ acts' = Bump("user")
    /\ \E pos \in RowPositions(fileExplorer.kids) :
         LET row == ElementAt(fileExplorer.kids, pos)
             n == row.clickHandlers
         IN /\ fileExplorer' = [fileExplorer EXCEPT !.kids = Times("row", n, @, pos)]
            /\ loads' = IF row.type = "file" /\ currentProjectId # Null
                        THEN loads \o [i \in 1..n |->
                                 [pc |-> "fetch", path |-> row.path, sent |-> <<"/repo/file">>,
                                  failed |-> FALSE, errs |-> 0]]
                        ELSE loads
    /\ UNCHANGED <<page, currentProjectId, currentRepoUrl, repoUrlInput, userInput,
                   analyzeBtn, sendBtn, projectInfo, landingHidden, dashboardHidden,
                   codeEditor, codeViewer, chatContainer, liveMinutes, todoList,
                   alerts, analysis, sends, greetings, now, settled, lastFiles, lastDone, OffDashboard>>

\* click on a visible folder toggle
ClickToggle ==
    /\ page = "dashboard" /\ ~dashboardHidden
    /\ fileExplorer.tag = "file-tree"
    /\ acts["user"] < MaxActions
    /\ acts' = Bump("user")
    /\ \E pos \in RowPositions(fileExplorer.kids) :
         LET row == ElementAt(fileExplorer.kids, pos)
         IN /\ ~row.toggleHidden
            /\ fileExplorer' = [fileExplorer EXCEPT
                                   !.kids = Times("toggle", row.toggleHandlers, @, pos)]
    /\ UNCHANGED <<page, currentProjectId, currentRepoUrl, repoUrlInput, userInput,
                   analyzeBtn, sendBtn, projectInfo, landingHidden, dashboardHidden,
                   codeEditor, codeViewer, chatContainer, liveMinutes, todoList,
                   dashCalls, settled, lastFiles, lastDone, OffDashboard>>

\* ---- loadFileContent, lines 145-162
\* the catch block: the error text is shown in place of the code
LoadCatch(i, msg) ==
    LET shown == showCode(codeEditor, codeViewer,
                          [kind |-> "error", v |-> <<"// Error loading file: ", msg>>], <<>>)
    IN /\ codeEditor' = shown[1]
       /\ codeViewer' = shown[2]
       /\ loads' = RemoveAt(loads, i)
       /\ settled' = Settle("loadFileContent", [loads[i] EXCEPT !.failed = TRUE, !.errs = @ + 1])
       /\ lastDone' = Done("loadFileContent", loads[i].pc = "json",
                            IF loads[i].pc = "json" THEN "bad" ELSE "none", loads[i].path)
       /\ UNCHANGED <<page, currentProjectId, currentRepoUrl, repoUrlInput, userInput,
                      analyzeBtn, sendBtn, projectInfo, landingHidden, dashboardHidden,
                      fileExplorer, chatContainer, liveMinutes, todoList,
                      alerts, analysis, sends, greetings, now, acts, lastFiles, OffDashboard>>

\* the fetch of line 149 settles
LoadFetchSettles ==
    /\ page = "dashboard"
    /\ \E i \in 1..Len(loads) :
         /\ loads[i].pc = "fetch"
         /\ \/ LoadCatch(i, "Failed to fetch")
            \/ LoadCatch(i, "Failed to load file: 404")
            \/ /\ loads' = [loads EXCEPT ![i].pc = "json"]
               /\ UNCHANGED <<page, dashState, alerts, analysis, sends, greetings, now,
                              ghostVars, OffDashboard>>

\* response.json() of line 155 settles; the backend answers with the content
\* of the file at the requested path
LoadBody ==
    /\ page = "dashboard"
    /\ \E i \in 1..Len(loads) :
         /\ loads[i].pc = "json"
         /\ \/ LoadCatch(i, "Unexpected token < in JSON")
            \/ LET shown == showCode(codeEditor, codeViewer,
                                     [kind |-> "content", v |-> loads[i].path], loads[i].path)
               IN /\ codeEditor' = shown[1]
                  /\ codeViewer' = shown[2]
                  /\ loads' = RemoveAt(loads, i)
                  /\ settled' = Settle("loadFileContent", loads[i])
                  /\ lastDone' = Done("loadFileContent", TRUE, "data", loads[i].path)
                  /\ UNCHANGED <<page, currentProjectId, currentRepoUrl, repoUrlInput,
                                 userInput, analyzeBtn, sendBtn, projectInfo, landingHidden,
                                 dashboardHidden, fileExplorer, chatContainer, liveMinutes,
                                 todoList, alerts, analysis, sends, greetings, now, acts,
                                 lastFiles, OffDashboard>>

\* ---- handleSendMessage, lines 164-205
\* lines 165-174, the chat input holding what the user typed: up to the
\* one-second delay.  Date.now() has moved on since the last call, or has not.
SendStart ==
    /\ acts["user"] < MaxActions
    /\ acts' = Bump("user")
    /\ \E typed \in MessageInputs, t \in {now, now + 1} :
         LET message == Trim(typed)
         IN /\ now' = t
            /\ IF message = <<>> \/ currentProjectId = Null
               THEN /\ userInput' = typed
                    /\ UNCHANGED <<chatContainer, sendBtn, sends>>
               ELSE /\ chatContainer' = chatContainer \o <<userMessage(message), thinkingElement(t)>>
                    /\ userInput' = <<>>
                    /\ sendBtn' = setLoading(sendBtn, "", TRUE)
                    /\ sends' = Append(sends, [pc |-> "delay", message |-> message,
                                               thinkingId |-> t, sent |-> <<>>,
                                               failed |-> FALSE, errs |-> 0])
    /\ UNCHANGED <<page, currentProjectId, currentRepoUrl, repoUrlInput,
                   analyzeBtn, projectInfo, landingHidden, dashboardHidden,
                   fileExplorer, codeEditor, codeViewer, liveMinutes, todoList,
                   alerts, analysis, loads, greetings, settled, lastFiles, lastDone, OffDashboard>>

\* click on the send button (line 69): a disabled button takes no click
ClickSend ==
    /\ page = "dashboard" /\ ~dashboardHidden /\ ~sendBtn.disabled
    /\ SendStart

\* Enter in the chat input (lines 70-74)
EnterSend ==
    /\ page = "dashboard" /\ ~dashboardHidden
    /\ SendStart

\* the delay of line 174 is over: the request of line 176 is sent
SendDelayElapsed ==
    /\ page = "dashboard"
    /\ \E i \in 1..Len(sends) :
         /\ sends[i].pc = "delay"
         /\ sends' = [sends EXCEPT ![i].pc = "fetch", ![i].sent = Append(@, "/ai/chat")]
    /\ UNCHANGED <<page, dashState, alerts, analysis, loads, greetings, now,
                   ghostVars, OffDashboard>>

\* a catch block that sends the request again instead of reporting
SendCatchRetrying(i, msg) ==
    /\ sends' = [sends EXCEPT ![i].pc = "fetch", ![i].sent = Append(@, "/ai/chat")]
    /\ UNCHANGED <<page, dashState, alerts, analysis, loads, greetings, now,
                   ghostVars, OffDashboard>>

\* the catch and finally blocks of handleSendMessage
SendCatch(i, msg) ==
    /\ chatContainer' = Append(chatContainer, aiMessage(<<"Error: ", msg>>))
    /\ sendBtn' = setLoading(sendBtn, "", FALSE)
    /\ sends' = RemoveAt(sends, i)
    /\ settled' = Settle("handleSendMessage", [sends[i] EXCEPT !.failed = TRUE, !.errs = @ + 1])
    /\ lastDone' = Done("handleSendMessage", sends[i].pc = "json",
                         IF sends[i].pc = "json" THEN "bad" ELSE "none",
                         [thinkingId |-> sends[i].thinkingId, response |-> <<"Error: ", msg>>])
    /\ UNCHANGED <<page, currentProjectId, currentRepoUrl, repoUrlInput, userInput,
                   analyzeBtn, projectInfo, landingHidden, dashboardHidden,
                   fileExplorer, codeEditor, codeViewer, liveMinutes, todoList,
                   alerts, analysis, loads, greetings, now, acts, lastFiles, OffDashboard>>

SendFetchSettles ==
    /\ page = "dashboard"
    /\ \E i \in 1..Len(sends) :
         /\ sends[i].pc = "fetch"
         /\ \/ SendCatch(i, "Failed to fetch")
            \/ /\ \/ sends' = [sends EXCEPT ![i].pc = "errjson", ![i].failed = TRUE]
                  \/ sends' = [sends EXCEPT ![i].pc = "json"]
               /\ UNCHANGED <<page, dashState, alerts, analysis, loads, greetings, now,
                              ghostVars, OffDashboard>>

SendErrorBody ==
    /\ page = "dashboard"
    /\ \E i \in 1..Len(sends) :
         /\ sends[i].pc = "errjson"
         /\ \E msg \in ApiErrors : SendCatch(i, msg)

\* response.json() of line 190 settles
SendBody ==
    /\ page = "dashboard"
    /\ \E i \in 1..Len(sends) :
         /\ sends[i].pc = "json"
         /\ \/ SendCatch(i, "Unexpected token < in JSON")
            \/ \E data \in ChatData :
                 /\ chatContainer' = Append(removeThinkingAnimation(chatContainer, sends[i].thinkingId),
                                            aiMessage(data.response))
                 /\ liveMinutes' = IF data.mom.some
                                   THEN [kind |-> "minutes", v |-> data.mom.v]
                                   ELSE liveMinutes
                 /\ todoList' = IF data.insights.some
                                THEN [kind |-> "items", v |-> todoItems(data.insights.v)]
                                ELSE todoList
                 /\ sendBtn' = setLoading(sendBtn, "", FALSE)
                 /\ sends' = RemoveAt(sends, i)
                 /\ settled' = Settle("handleSendMessage", sends[i])
                 /\ lastDone' = Done("handleSendMessage", TRUE, "data",
                                      [thinkingId |-> sends[i].thinkingId,
                                       response |-> data.response])
                 /\ UNCHANGED <<page, currentProjectId, currentRepoUrl, repoUrlInput,
                                userInput, analyzeBtn, projectInfo, landingHidden,
                                dashboardHidden, fileExplorer, codeEditor, codeViewer,
                                alerts, analysis, loads, greetings, now, acts, lastFiles,
                                OffDashboard>>

\* ---- fetchAndShowReports, lines 207-262, on a click of the export button:
\* no request is made; the modal is filled and displayed between the two
\* setLoading calls
ClickExport ==
    /\ page = "dashboard" /\ ~dashboardHidden /\ ~exportBtn.disabled
    /\ acts["user"] < MaxActions
    /\ acts' = Bump("user")
    /\ IF currentProjectId = Null
       THEN /\ alerts' = Append(alerts, <<"No project selected.">>)
            /\ UNCHANGED <<exportBtn, reportsModal>>
       ELSE /\ exportBtn' = setLoading(setLoading(exportBtn, "Preparing Downloads...", TRUE),
                                      "Export Reports", FALSE)
            /\ reportsModal' = TRUE
            /\ UNCHANGED alerts
    /\ UNCHANGED <<page, dashState, analysis, loads, sends, greetings, now,
                   settled, lastFiles, lastDone, OffExport>>

NextDashboard ==
    \/ EditorInit \/ ClickExport
    \/ ClickAnalyze \/ AnalyzeFetchSettles \/ AnalyzeErrorBody \/ AnalyzeBody
    \/ GreetingDismiss \/ ClickNewAnalysis
    \/ ClickFileItem \/ ClickToggle \/ LoadFetchSettles \/ LoadBody
    \/ ClickSend \/ EnterSend \/ SendDelayElapsed \/ SendFetchSettles
    \/ SendErrorBody \/ SendBody

\* ------------------------------------------------------ part_001: chat module
\* A message text is a sequence of pieces; the reveal of addAiMessage shows
\* one piece per timer tick (the code: one character per tick).
ChatGreeting == <<"Hello! I'm your AI coding assistant.", " How can I help you today?">>

ChatTrouble == <<"I'm having trouble processing your request.">>

ChatNoBackend == <<"I'm currently unable to connect to the backend.",
                   " Please make sure the server is running.">>

ChatSorry == <<"Sorry, I encountered an error.",
               " Please make sure the backend server is running.">>

\* data.response of the /chat endpoint: empty or missing, or a reply
ChatReplies == {<<>>, <<"ok">>}

chatUserEl(id, message) ==
    [id |-> id, cls |-> "user-message", text |-> message, i |-> Len(message), timer |-> FALSE]

chatAiEl(id, message) ==
    [id |-> id, cls |-> "ai-message", text |-> message, i |-> 0, timer |-> TRUE]

chatLoadingEl(id) ==
    [id |-> id, cls |-> "typing", text |-> <<>>, i |-> 0, timer |-> FALSE]

\* the chat page after initChat: the welcome message is being revealed
ChatStart ==
    /\ chatInput = <<>>
    /\ chatMessages = <<chatAiEl(1, ChatGreeting)>>
    /\ chatHistory = <<[role |-> "assistant", content |-> ChatGreeting]>>
    /\ isAiTyping = TRUE
    /\ aiCalls = <<>>
    /\ nextId = 2

OffChat == <<renderVars, parseVars, dashState, dashCalls, exportVars, toolVars, mainVars,
            editorVars>>

HasElement(dom, id) == \E k \in 1..Len(dom) : dom[k].id = id

\* chatMessages.removeChild(element)
RemoveElement(dom, id) == SelectSeq(dom, LAMBDA e : e.id # id)

\* document.querySelector('.typing') and its removal, lines 146-149
RemoveFirstTyping(dom) ==
    IF \E k \in 1..Len(dom) : dom[k].cls = "typing"
    THEN RemoveAt(dom, CHOOSE k \in 1..Len(dom) :
                         /\ dom[k].cls = "typing"
                         /\ \A j \in 1..(k - 1) : dom[j].cls # "typing")
    ELSE dom

\* addAiMessage, lines 75-102, appended to the children dom
addAiMessage(dom, message) ==
    /\ chatMessages' = Append(dom, chatAiEl(nextId, message))
    /\ nextId' = nextId + 1
    /\ isAiTyping' = TRUE
    /\ chatHistory' = Append(chatHistory, [role |-> "assistant", content |-> message])

replyTextAsReceived(r) == r

\* data.response || 'I'm having trouble processing your request.', line 137
replyText(r) == IF r = <<>> THEN ChatTrouble ELSE r

\* a last tick that leaves the flag as it is
ChatTypeNextCharKeepingFlag ==
    /\ page = "chat"
    /\ \E k \in 1..Len(chatMessages) :
         /\ chatMessages[k].timer
         /\ IF chatMessages[k].i < Len(chatMessages[k].text)
            THEN chatMessages' = [chatMessages EXCEPT ![k].i = @ + 1]
            ELSE chatMessages' = [chatMessages EXCEPT ![k].timer = FALSE]
    /\ UNCHANGED <<page, isAiTyping, chatInput, chatHistory, aiCalls, nextId, ghostVars,
                   OffChat>>

\* typeNextChar, lines 87-96: one tick of the reveal of one message
ChatTypeNextChar ==
    /\ page = "chat"
    /\ \E k \in 1..Len(chatMessages) :
         /\ chatMessages[k].timer
         /\ IF chatMessages[k].i < Len(chatMessages[k].text)
            THEN /\ chatMessages' = [chatMessages EXCEPT ![k].i = @ + 1]
                 /\ UNCHANGED isAiTyping
            ELSE /\ chatMessages' = [chatMessages EXCEPT ![k].timer = FALSE]
                 /\ isAiTyping' = FALSE
    /\ UNCHANGED <<page, chatInput, chatHistory, aiCalls, nextId, ghostVars, OffChat>>

\* sendMessage, lines 46-60, with the start of getAiResponse, lines 105-130:
\* click on the send button or Enter, the input holding what the user typed.
\* The request body is serialised when fetch is called, the user's message
\* already in chatHistory; window.editor holds no editor on this page.
\* the user edits the text of the chat input (chatInput.value, read at line 49)
ChatTypeInput ==
    /\ page = "chat"
    /\ \E typed \in ChatInputs : typed # chatInput /\ chatInput' = typed
    /\ UNCHANGED <<page, chatMessages, chatHistory, isAiTyping, aiCalls, nextId,
                   ghostVars, OffChat>>

\* sendMessage with the guard on isAiTyping left out
sendMessageAnyway(typing, message) == message = <<>>

\* sendMessage returns early, lines 47-50
sendMessageIgnored(typing, message) == typing \/ message = <<>>

ChatSendMessage ==
    /\ page = "chat"
    /\ acts["user"] < MaxActions
    /\ acts' = Bump("user")
    /\ LET message == Trim(chatInput)
           history == Append(chatHistory, [role |-> "user", content |-> message])
       IN IF sendMessageIgnored(isAiTyping, message)
          THEN UNCHANGED <<chatInput, chatMessages, chatHistory, aiCalls, nextId>>
          ELSE /\ chatInput' = <<>>
               /\ chatMessages' = chatMessages \o
                      <<chatUserEl(nextId, message), chatLoadingEl(nextId + 1)>>
               /\ chatHistory' = history
               /\ nextId' = nextId + 2
               /\ aiCalls' = Append(aiCalls,
                      [pc |-> "fetch", loading |-> nextId + 1,
                       body |-> [message |-> message, code |-> <<>>,
                                 language |-> "javascript", history |-> history],
                       sent |-> <<"/chat">>, failed |-> FALSE, errs |-> 0])
    /\ UNCHANGED <<page, isAiTyping, settled, lastFiles, lastDone, OffChat>>

\* the catch block of getAiResponse, lines 142-152
ChatCatch(i, failed) ==
    /\ addAiMessage(RemoveFirstTyping(chatMessages), ChatSorry)
    /\ aiCalls' = RemoveAt(aiCalls, i)
    /\ settled' = Settle("getAiResponse", [aiCalls[i] EXCEPT !.failed = failed, !.errs = @ + 1])
    /\ lastDone' = Done("getAiResponse", aiCalls[i].pc = "json" \/ ~failed,
                         IF aiCalls[i].pc = "json" THEN "bad" ELSE "none",
                         [loading |-> aiCalls[i].loading, response |-> <<>>])
    /\ UNCHANGED <<page, chatInput, acts, lastFiles, OffChat>>

\* the fetch of line 119 settles: rejected, or answered; line 133 then removes
\* the call's own indicator, which throws when it is no longer a child
ChatFetchSettles ==
    /\ page = "chat"
    /\ \E i \in 1..Len(aiCalls) :
         /\ aiCalls[i].pc = "fetch"
         /\ \/ ChatCatch(i, TRUE)
            \/ \E ok \in BOOLEAN :
                 IF ~HasElement(chatMessages, aiCalls[i].loading)
                 THEN ChatCatch(i, ~ok)
                 ELSE IF ok
                 THEN /\ chatMessages' = RemoveElement(chatMessages, aiCalls[i].loading)
                      /\ aiCalls' = [aiCalls EXCEPT ![i].pc = "json"]
                      /\ UNCHANGED <<page, chatInput, chatHistory, isAiTyping, nextId,
                                     ghostVars, OffChat>>
                 ELSE /\ addAiMessage(RemoveElement(chatMessages, aiCalls[i].loading),
                                      ChatNoBackend)
                      /\ aiCalls' = RemoveAt(aiCalls, i)
                      /\ settled' = Settle("getAiResponse",
                                           [aiCalls[i] EXCEPT !.failed = TRUE, !.errs = @ + 1])
                      /\ lastDone' = Done("getAiResponse", FALSE, "none",
                                           [loading |-> aiCalls[i].loading, response |-> <<>>])
                      /\ UNCHANGED <<page, chatInput, acts, lastFiles, OffChat>>

\* response.json() of line 136 settles
ChatBody ==
    /\ page = "chat"
    /\ \E i \in 1..Len(aiCalls) :
         /\ aiCalls[i].pc = "json"
         /\ \/ ChatCatch(i, TRUE)
            \/ \E r \in ChatReplies :
                 /\ addAiMessage(chatMessages, replyText(r))
                 /\ aiCalls' = RemoveAt(aiCalls, i)
                 /\ settled' = Settle("getAiResponse", aiCalls[i])
                 /\ lastDone' = Done("getAiResponse", TRUE, "data",
                                      [loading |-> aiCalls[i].loading, response |-> r])
                 /\ UNCHANGED <<page, chatInput, acts, lastFiles, OffChat>>

NextChat == ChatTypeNextChar \/ ChatTypeInput \/ ChatSendMessage \/ ChatFetchSettles \/ ChatBody

\* ------------------------------------------------------------------ main.js
MainGreeting == <<"Hello! I'm your AI code reviewer. Submit your code, and I'll provide feedback and suggestions to improve it.">>

MainChatGreeting == <<"Hello! I'm your AI coding assistant. How can I help you today?">>

MainSorry == <<"Sorry, I encountered an error. Please try again later.">>

MainAnalyzeSorry ==
    <<"Sorry, I encountered an error while analyzing your code. Please try again later.">>

MainNothingToSubmit ==
    <<"Please enter code in the editor or upload a file before submitting.">>

\* the message processAnalysisResult formats, lines 485-525
AnalysisReport == <<"I've analyzed your code code. Here's what I found:">>

\* data.response of sendChatMessage: missing, the empty text, or a reply
MainReplies == {Absent, Some(<<>>), Some(<<"ok">>)}

\* the body of the /analyze response: null, a result, a result with an error
AnalysisResults == {Absent, Some([error |-> Absent]), Some([error |-> Some("bad")])}

\* the body of the /execute response
ExecData ==
    {[success |-> TRUE, output |-> "42", error |-> "", execution_time |-> Some("0.1")],
     [success |-> TRUE, output |-> "", error |-> "", execution_time |-> Absent],
     [success |-> FALSE, output |-> "", error |-> "boom", execution_time |-> Some("0.1")],
     [success |-> FALSE, output |-> "", error |-> "", execution_time |-> Absent]}

\* window.editor: never assigned (part_000 not loaded), null (part_000 line
\* 6), or the editor (part_000 line 90)
WindowEditors == {"undefined", "null", "editor"}

\* what the editor holds when the run button is clicked
Codes == {<<>>, <<" ">>, <<"x">>}

OutputPlaceholder == [text |-> "// Code execution output will appear here", cls |-> ""]

SubmitIdle == [disabled |-> FALSE, text |-> "Submit Code for Review"]

mainUserEl(message) ==
    [cls |-> "user-message", text |-> Some(message), index |-> 0, timer |-> FALSE,
     span |-> FALSE]

\* the element of addAIMessage after animateTyping has started, lines 191-232
mainAiEl(txt) ==
    [cls |-> "ai-message", text |-> txt, index |-> 0, timer |-> TRUE, span |-> TRUE]

mainIndicatorEl ==
    [cls |-> "typing-indicator-message", text |-> Absent, index |-> 0, timer |-> FALSE,
     span |-> FALSE]

\* window.addAIMessage, lines 163-187
addAIMessage(dom, txt) == Append(dom, mainAiEl(txt))

HasIndicator(dom) == \E k \in 1..Len(dom) : dom[k].cls = "typing-indicator-message"

\* showTypingIndicator, lines 556-586
showTypingIndicator(dom) == IF HasIndicator(dom) THEN dom ELSE Append(dom, mainIndicatorEl)

\* removeTypingIndicator, lines 589-594
removeTypingIndicator(dom) ==
    IF HasIndicator(dom)
    THEN RemoveAt(dom, CHOOSE k \in 1..Len(dom) :
                         /\ dom[k].cls = "typing-indicator-message"
                         /\ \A j \in 1..(k - 1) : dom[j].cls # "typing-indicator-message")
    ELSE dom

\* the page of main.js after DOMContentLoaded, the welcome timer pending; the
\* output pane, whose first content is in the page markup, starts as
\* clearOutput leaves it
MainStart ==
    /\ mainInput = <<>>
    /\ mainChat = <<>>
    /\ conversationHistory = <<>>
    /\ chatCalls = <<>>
    /\ submitBtn = SubmitIdle
    /\ submits = <<>>
    /\ runs = <<>>
    /\ output = OutputPlaceholder
    /\ executionStatus = [text |-> "", cls |-> ""]
    /\ executionTime = ""
    /\ windowEditor = "null"
    /\ lastAnalysis = Absent
    /\ welcomeTimer = TRUE

OffEditor == <<renderVars, parseVars, dashState, dashCalls, exportVars, toolVars, chatVars>>

OffMain == <<OffEditor, editorVars>>

EditorPlaceholder == <<"// Start coding here...">>

\* the state of the elements part_000 works on: the select shows JavaScript
\* and the editor is created with the mode 'javascript' (line 93)
EditorStart ==
    /\ languageSelect = "javascript"
    /\ editorMode = "javascript"
    /\ editorValue = Absent
    /\ reads = <<>>

\* part_000 lines 90-120: the CodeMirror instance comes to exist and is given
\* its placeholder content
MainEditorReady ==
    /\ page = "main" /\ windowEditor = "null"
    /\ windowEditor' = "editor"
    /\ editorValue' = Some(EditorPlaceholder)
    /\ UNCHANGED <<languageSelect, editorMode, reads, OffEditor>>
    /\ UNCHANGED <<page, mainInput, mainChat, conversationHistory, chatCalls, submitBtn,
                   submits, runs, output, executionStatus, executionTime,
                   lastAnalysis, welcomeTimer, ghostVars>>

\* the timer of lines 45-47
MainWelcome ==
    /\ page = "main" /\ welcomeTimer
    /\ welcomeTimer' = FALSE
    /\ mainChat' = addAIMessage(mainChat, Some(MainGreeting))
    /\ UNCHANGED <<page, mainInput, conversationHistory, chatCalls, submitBtn, submits,
                   runs, output, executionStatus, executionTime, windowEditor,
                   lastAnalysis, ghostVars, OffMain>>

\* typeNextChar, lines 204-228: one tick of the reveal of one message; with an
\* undefined text the tick throws and the chain ends, the cursor span left
MainTypeNextChar ==
    /\ page = "main"
    /\ \E k \in 1..Len(mainChat) :
         LET el == mainChat[k]
         IN /\ el.timer
            /\ mainChat' = IF ~el.text.some
                           THEN [mainChat EXCEPT ![k].timer = FALSE]
                           ELSE IF el.index < Len(el.text.v)
                           THEN [mainChat EXCEPT ![k].index = @ + 1]
                           ELSE [mainChat EXCEPT ![k].timer = FALSE, ![k].span = FALSE]
    /\ UNCHANGED <<page, mainInput, conversationHistory, chatCalls, submitBtn, submits,
                   runs, output, executionStatus, executionTime, windowEditor,
                   lastAnalysis, welcomeTimer, ghostVars, OffMain>>

\* ---- sendMessage, lines 64-110, and sendChatMessage, lines 113-138
\* getEditorCode reads the never-assigned editor of line 382: the code is ''
MainSendMessage ==
    /\ page = "main"
    /\ acts["user"] < MaxMainActions
    /\ acts' = Bump("user")
    /\ \E typed \in MessageInputs :
         LET message == Trim(typed)
             history == Append(conversationHistory,
                               [role |-> "user", content |-> Some(message)])
         IN IF message = <<>>
            THEN /\ mainInput' = typed
                 /\ UNCHANGED <<mainChat, conversationHistory, chatCalls>>
            ELSE /\ mainInput' = <<>>
                 /\ mainChat' = showTypingIndicator(Append(mainChat, mainUserEl(message)))
                 /\ conversationHistory' = history
                 /\ chatCalls' = Append(chatCalls,
                        [pc |-> "fetch",
                         body |-> [message |-> message, conversation_history |-> history,
                                   code_context |-> <<>>, language |-> "javascript"],
                         sent |-> <<"/chat">>, failed |-> FALSE, errs |-> 0])
    /\ UNCHANGED <<page, submitBtn, submits, runs, output, executionStatus,
                   executionTime, windowEditor, lastAnalysis, welcomeTimer,
                   settled, lastFiles, lastDone, OffMain>>

\* the catch of lines 105-109
MainChatCatch(i) ==
    /\ mainChat' = addAIMessage(removeTypingIndicator(mainChat), Some(MainSorry))
    /\ chatCalls' = RemoveAt(chatCalls, i)
    /\ settled' = Settle("sendChatMessage",
                         [chatCalls[i] EXCEPT !.failed = TRUE, !.errs = @ + 1])
    /\ lastDone' = Done("sendChatMessage", chatCalls[i].pc = "json",
                         IF chatCalls[i].pc = "json" THEN "bad" ELSE "none", Absent)
    /\ UNCHANGED <<page, mainInput, conversationHistory, submitBtn, submits, runs,
                   output, executionStatus, executionTime, windowEditor, lastAnalysis,
                   welcomeTimer, acts, lastFiles, OffMain>>

\* the fetch of line 115 settles: rejected, answered non-OK, or answered OK
MainChatFetchSettles ==
    /\ page = "main"
    /\ \E i \in 1..Len(chatCalls) :
         /\ chatCalls[i].pc = "fetch"
         /\ \/ MainChatCatch(i)
            \/ /\ chatCalls' = [chatCalls EXCEPT ![i].pc = "json"]
               /\ UNCHANGED <<page, mainInput, mainChat, conversationHistory, submitBtn,
                              submits, runs, output, executionStatus, executionTime,
                              windowEditor, lastAnalysis, welcomeTimer, ghostVars, OffMain>>

\* response.json() of line 132 settles, then the handler of lines 92-104
MainChatBody ==
    /\ page = "main"
    /\ \E i \in 1..Len(chatCalls) :
         /\ chatCalls[i].pc = "json"
         /\ \/ MainChatCatch(i)
            \/ \E r \in MainReplies :
                 /\ mainChat' = addAIMessage(removeTypingIndicator(mainChat), r)
                 /\ conversationHistory' = Append(conversationHistory,
                                                  [role |-> "assistant", content |-> r])
                 /\ chatCalls' = RemoveAt(chatCalls, i)
                 /\ settled' = Settle("sendChatMessage", chatCalls[i])
                 /\ lastDone' = Done("sendChatMessage", TRUE, "data", r)
                 /\ UNCHANGED <<page, mainInput, submitBtn, submits, runs, output,
                                executionStatus, executionTime, windowEditor,
                                lastAnalysis, welcomeTimer, acts, lastFiles, OffMain>>

\* ---- clearChat, lines 348-360
MainClearChat ==
    /\ page = "main"
    /\ acts["user"] < MaxMainActions
    /\ acts' = Bump("user")
    /\ mainChat' = addAIMessage(<<>>, Some(MainChatGreeting))
    /\ conversationHistory' = <<>>
    /\ UNCHANGED <<page, mainInput, chatCalls, submitBtn, submits, runs, output,
                   executionStatus, executionTime, windowEditor, lastAnalysis,
                   welcomeTimer, settled, lastFiles, lastDone, OffMain>>

\* ---- the click listener of initSubmitButton, lines 404-446
\* the editor code is '' (line 386); the file inputs hold files or do not
MainClickSubmit ==
    /\ page = "main" /\ ~submitBtn.disabled
    /\ acts["user"] < MaxMainActions
    /\ acts' = Bump("user")
    /\ \E hasFiles \in BOOLEAN :
         IF ~hasFiles
         THEN /\ mainChat' = addAIMessage(mainChat, Some(MainNothingToSubmit))
              /\ UNCHANGED <<submitBtn, submits>>
         ELSE /\ submitBtn' = [disabled |-> TRUE, text |-> "Processing..."]
              /\ mainChat' = showTypingIndicator(mainChat)
              /\ submits' = Append(submits,
                     [pc |-> "fetch", body |-> [code |-> <<>>, language |-> "javascript"],
                      sent |-> <<"/analyze">>, failed |-> FALSE, errs |-> 0])
    /\ UNCHANGED <<page, mainInput, conversationHistory, chatCalls, runs, output,
                   executionStatus, executionTime, windowEditor, lastAnalysis,
                   welcomeTimer, settled, lastFiles, lastDone, OffMain>>

\* the catch and finally of lines 436-445; failed: the call itself failed
MainAnalyzeCatch(i, failed) ==
    /\ mainChat' = addAIMessage(removeTypingIndicator(mainChat), Some(MainAnalyzeSorry))
    /\ submitBtn' = SubmitIdle
    /\ submits' = RemoveAt(submits, i)
    /\ settled' = Settle("analyzeCode", [submits[i] EXCEPT !.failed = failed, !.errs = @ + 1])
    /\ lastDone' = Done("analyzeCode", submits[i].pc = "json",
                         IF ~failed THEN "data"
                         ELSE IF submits[i].pc = "json" THEN "bad" ELSE "none", Absent)
    /\ UNCHANGED <<page, mainInput, conversationHistory, chatCalls, runs, output,
                   executionStatus, executionTime, windowEditor, lastAnalysis,
                   welcomeTimer, acts, lastFiles, OffMain>>

\* the fetch of line 452 settles: rejected, answered non-OK, or answered OK
MainAnalyzeFetchSettles ==
    /\ page = "main"
    /\ \E i \in 1..Len(submits) :
         /\ submits[i].pc = "fetch"
         /\ \/ MainAnalyzeCatch(i, TRUE)
            \/ /\ submits' = [submits EXCEPT ![i].pc = "json"]
               /\ UNCHANGED <<page, mainInput, mainChat, conversationHistory, chatCalls,
                              submitBtn, runs, output, executionStatus, executionTime,
                              windowEditor, lastAnalysis, welcomeTimer, ghostVars, OffMain>>

\* response.json() of line 467 settles, then processAnalysisResult, lines
\* 475-532, which throws on a null result
MainAnalyzeBody ==
    /\ page = "main"
    /\ \E i \in 1..Len(submits) :
         /\ submits[i].pc = "json"
         /\ \/ MainAnalyzeCatch(i, TRUE)
            \/ \E result \in AnalysisResults :
                 IF ~result.some
                 THEN MainAnalyzeCatch(i, FALSE)
                 ELSE /\ mainChat' = addAIMessage(removeTypingIndicator(mainChat),
                                IF result.v.error.some
                                THEN Some(<<"Error analyzing code: ", result.v.error.v>>)
                                ELSE Some(AnalysisReport))
                      /\ lastAnalysis' = IF result.v.error.some THEN lastAnalysis ELSE result
                      /\ submitBtn' = SubmitIdle
                      /\ submits' = RemoveAt(submits, i)
                      /\ settled' = Settle("analyzeCode", submits[i])
                      /\ lastDone' = Done("analyzeCode", TRUE, "data", result)
                      /\ UNCHANGED <<page, mainInput, conversationHistory, chatCalls, runs,
                                     output, executionStatus, executionTime, windowEditor,
                                     welcomeTimer, acts, lastFiles, OffMain>>

\* ---- runCode, lines 235-328
\* lines 239-267: up to the health check.  With window.editor null line 248
\* throws and the call ends with nothing shown.
MainClickRun ==
    /\ page = "main"
    /\ acts["user"] < MaxMainActions
    /\ acts' = Bump("user")
    /\ \E code \in Codes :
         IF windowEditor = "undefined"
         THEN /\ output' = [text |-> "// Error: Editor not initialized", cls |-> "error"]
              /\ executionStatus' = [text |-> "Error", cls |-> "error"]
              /\ executionTime' = "0 ms"
              /\ UNCHANGED runs
         ELSE IF windowEditor = "null"
         THEN UNCHANGED <<output, executionStatus, executionTime, runs>>
         ELSE IF Trim(code) = <<>>
         THEN /\ output' = [text |-> "// No code to execute", cls |-> "error"]
              /\ executionStatus' = [text |-> "Error", cls |-> "error"]
              /\ executionTime' = "0 ms"
              /\ UNCHANGED runs
         ELSE /\ output' = [text |-> "// Executing code...", cls |-> ""]
              /\ executionStatus' = [text |-> "Running", cls |-> ""]
              /\ executionTime' = ""
              /\ runs' = Append(runs,
                     [pc |-> "health", body |-> [code |-> code, language |-> "javascript"],
                      sent |-> <<"/health">>, failed |-> FALSE, errs |-> 0])
    /\ UNCHANGED <<page, mainInput, mainChat, conversationHistory, chatCalls, submitBtn,
                   submits, windowEditor, lastAnalysis, welcomeTimer, settled, lastFiles, lastDone,
                   OffMain>>

\* an error shown by runCode: lines 284-290 and lines 322-327
RunFails(i, message) ==
    /\ output' = [text |-> message, cls |-> ""]
    /\ executionStatus' = [text |-> "Error", cls |-> "error"]
    /\ executionTime' = "0 ms"
    /\ runs' = RemoveAt(runs, i)
    /\ settled' = Settle("runCode", [runs[i] EXCEPT !.failed = TRUE, !.errs = @ + 1])
    /\ lastDone' = Done("runCode", runs[i].pc = "json",
                         IF runs[i].pc = "json" THEN "bad" ELSE "none", runs[i].pc)
    /\ UNCHANGED <<page, mainInput, mainChat, conversationHistory, chatCalls, submitBtn,
                   submits, windowEditor, lastAnalysis, welcomeTimer, acts, lastFiles,
                   OffMain>>

\* the health check of line 274 settles: rejected or non-OK, or OK, and then
\* the request of line 292 is sent
MainRunHealthSettles ==
    /\ page = "main"
    /\ \E i \in 1..Len(runs) :
         /\ runs[i].pc = "health"
         /\ \/ RunFails(i, "// Error: Backend server is not running or not accessible.")
            \/ /\ runs' = [runs EXCEPT ![i].pc = "execute", ![i].sent = Append(@, "/execute")]
               /\ UNCHANGED <<page, mainInput, mainChat, conversationHistory, chatCalls,
                              submitBtn, submits, output, executionStatus, executionTime,
                              windowEditor, lastAnalysis, welcomeTimer, ghostVars, OffMain>>

\* the fetch of line 292 settles: rejected, answered non-OK, or answered OK
MainRunExecuteSettles ==
    /\ page = "main"
    /\ \E i \in 1..Len(runs) :
         /\ runs[i].pc = "execute"
         /\ \/ RunFails(i, "// Error: Failed to fetch")
            \/ RunFails(i, "// Error: HTTP error! status: 500")
            \/ /\ runs' = [runs EXCEPT ![i].pc = "json"]
               /\ UNCHANGED <<page, mainInput, mainChat, conversationHistory, chatCalls,
                              submitBtn, submits, output, executionStatus, executionTime,
                              windowEditor, lastAnalysis, welcomeTimer, ghostVars, OffMain>>

\* response.json() of line 307 settles, then lines 309-320
MainRunBody ==
    /\ page = "main"
    /\ \E i \in 1..Len(runs) :
         /\ runs[i].pc = "json"
         /\ \/ RunFails(i, "// Error: Unexpected token < in JSON")
            \/ \E data \in ExecData :
                 /\ output' = IF data.success
                              THEN [text |-> IF data.output = "" THEN "// No output"
                                             ELSE data.output, cls |-> ""]
                              ELSE [text |-> IF data.error = "" THEN "// Execution failed"
                                             ELSE data.error, cls |-> ""]
                 /\ executionStatus' = IF data.success
                                       THEN [text |-> "Success", cls |-> "success"]
                                       ELSE [text |-> "Error", cls |-> "error"]
                 /\ executionTime' = IF data.execution_time.some
                                     THEN data.execution_time.v \o " s"
                                     ELSE "undefined s"
                 /\ runs' = RemoveAt(runs, i)
                 /\ settled' = Settle("runCode", runs[i])
                 /\ lastDone' = Done("runCode", TRUE, "data", data)
                 /\ UNCHANGED <<page, mainInput, mainChat, conversationHistory, chatCalls,
                                submitBtn, submits, windowEditor, lastAnalysis,
                                welcomeTimer, acts, lastFiles, OffMain>>

\* clearOutput, lines 341-345, on a click of the clear-output button
MainClearOutput ==
    /\ page = "main"
    /\ acts["user"] < MaxMainActions
    /\ acts' = Bump("user")
    /\ output' = OutputPlaceholder
    /\ executionStatus' = [text |-> "", cls |-> ""]
    /\ executionTime' = ""
    /\ UNCHANGED <<page, mainInput, mainChat, conversationHistory, chatCalls, submitBtn,
                   submits, runs, windowEditor, lastAnalysis, welcomeTimer, settled,
                   lastFiles, lastDone, OffMain>>

\* ------------------------------------------- part_000: single file upload
\* own keys of the extensionMap object literal, lines 437-493
extensionMap ==
    (<<"j","s">> :> "javascript") @@ (<<"j","s","x">> :> "javascript") @@ (<<"t","s">> :> "typescript") @@
    (<<"t","s","x">> :> "typescript") @@ (<<"p","y">> :> "python") @@ (<<"p","y","c">> :> "python") @@
    (<<"p","y","d">> :> "python") @@ (<<"p","y","o">> :> "python") @@ (<<"p","y","w">> :> "python") @@
    (<<"j","a","v","a">> :> "java") @@ (<<"c","s">> :> "csharp") @@ (<<"c","p","p">> :> "cpp") @@
    (<<"c","c">> :> "cpp") @@ (<<"c","x","x">> :> "cpp") @@ (<<"c">> :> "cpp") @@
    (<<"h">> :> "cpp") @@ (<<"h","p","p">> :> "cpp") @@ (<<"p","h","p">> :> "php") @@
    (<<"r","b">> :> "ruby") @@ (<<"g","o">> :> "go") @@ (<<"s","w","i","f","t">> :> "swift") @@
    (<<"k","t">> :> "kotlin") @@ (<<"k","t","s">> :> "kotlin") @@ (<<"r","s">> :> "rust") @@
    (<<"h","t","m","l">> :> "html") @@ (<<"h","t","m">> :> "html") @@ (<<"c","s","s">> :> "css") @@
    (<<"s","q","l">> :> "sql")

\* filename.slice((filename.lastIndexOf('.') - 1 >>> 0) + 2).toLowerCase():
\* with no "." or a leading "." the operand of >>> is negative, the unsigned
\* result is beyond every length and the slice is empty
getFileExtension(filename) ==
    LET lastIndexOf == LastDot(filename) - 1
    IN toLowerCase(IF lastIndexOf - 1 < 0 THEN <<>>
                   ELSE SubSeq(filename, lastIndexOf + 2, Len(filename)))

\* extensionMap[extension] || null: the language, the text of an inherited
\* property's value, or Null
detectLanguageFromExtension(extension) == Lookup(extensionMap, extension, Null)

\* the options of the language select: one for each language of the table
SelectOptions == {extensionMap[k] : k \in DOMAIN extensionMap}

\* languageSelect.value = v, line 342: the option with that value becomes the
\* selected one; with no such option none is selected and the value is ''
setSelectValue(v) == IF v \in SelectOptions THEN v ELSE ""

\* the switch of updateEditorMode, lines 153-197
modeOf(language) ==
    CASE language = "javascript" -> "javascript"
      [] language = "python" -> "python"
      [] language \in {"java", "csharp", "cpp"} -> "clike"
      [] language = "php" -> "php"
      [] language = "ruby" -> "ruby"
      [] language = "go" -> "go"
      [] language = "swift" -> "swift"
      [] language = "rust" -> "rust"
      [] language = "html" -> "htmlmixed"
      [] language = "css" -> "css"
      [] language = "sql" -> "sql"
      [] language = "typescript" -> "javascript"
      [] OTHER -> "javascript"

UploadNames ==
    { <<"a",".","p","y">>, <<"a",".","J","S">>, <<"a",".","t","x","t">>,
      <<".","j","s">>, <<"a",".","c","o","n","s","t","r","u","c","t","o","r">> }

\* e.target.files[0]: a file with its name and text, or nothing
UploadFiles == {Some([name |-> n, text |-> <<"print(1)">>]) : n \in UploadNames} \cup {Absent}

UploadLoaded == <<"File loaded successfully.">>

UploadError == <<"Error reading file.">>

\* the change listener of the single-file input, lines 333-366, up to
\* reader.readAsText(file)
MainUploadFile ==
    /\ page = "main"
    /\ acts["user"] < MaxMainActions
    /\ acts' = Bump("user")
    /\ \E file \in UploadFiles :
         IF ~file.some
         THEN UNCHANGED <<languageSelect, editorMode, reads>>
         ELSE LET detectedLanguage ==
                      detectLanguageFromExtension(getFileExtension(file.v.name))
              IN /\ languageSelect' = IF detectedLanguage # Null
                                      THEN setSelectValue(detectedLanguage)
                                      ELSE languageSelect
                 /\ editorMode' = IF detectedLanguage # Null /\ windowEditor = "editor"
                                  THEN modeOf(languageSelect')
                                  ELSE editorMode
                 /\ reads' = Append(reads, file.v)
    /\ UNCHANGED <<editorValue, mainVars, page, settled, lastFiles, lastDone, OffEditor>>

\* reader.onload, lines 348-359, or reader.onerror, lines 361-363.  Line 357
\* reads options[selectedIndex].text, which throws when no option is selected.
MainReadSettles ==
    /\ page = "main"
    /\ \E i \in 1..Len(reads) :
         /\ reads' = RemoveAt(reads, i)
         /\ \/ /\ editorValue' = IF windowEditor = "editor" THEN Some(reads[i].text)
                                 ELSE editorValue
               /\ mainChat' = IF languageSelect = "" THEN mainChat
                              ELSE addAIMessage(mainChat, Some(UploadLoaded))
               /\ lastDone' = Done("FileReader", TRUE, "data", reads[i])
            \/ /\ mainChat' = addAIMessage(mainChat, Some(UploadError))
               /\ lastDone' = Done("FileReader", FALSE, "none", reads[i])
               /\ UNCHANGED editorValue
    /\ UNCHANGED <<languageSelect, editorMode, page, mainInput, conversationHistory,
                   chatCalls, submitBtn, submits, runs, output, executionStatus,
                   executionTime, windowEditor, lastAnalysis, welcomeTimer, acts,
                   settled, lastFiles, OffEditor>>

\* ------------------------------------------ script.js: tabs and generators
\* everything the handlers of the second script of script.js leave alone,
\* alerts apart
OffTools == <<renderVars, parseVars, dashState, exportVars, chatVars, mainVars,
              editorVars, analysis, loads, sends, greetings, now>>

Tabs == {"editor", "tech-spec", "test-cases"}

OutputFormats == {"markdown", "html"}

\* what a generation response carries as its content or its tests
Contents == { <<"a">>, <<"<">> }

GenKinds == {"spec", "tests"}

GenUrl == [spec |-> "/api/generate-documentation", tests |-> "/api/generate-tests"]

\* line 893: the text the editor of the second script is given
ToolsEditorText == <<"// Start coding here\nconsole.log(\"Hello, AetherCode!\");\n">>

\* escapeHtml, lines 1177-1184: the five replacements, '&' first, so that no
\* entity written by a later replacement is escaped again
escapeHtml(unsafe) ==
    LET entity(c) == CASE c = "&" -> <<"&", "a", "m", "p", ";">>
                       [] c = "<" -> <<"&", "l", "t", ";">>
                       [] c = ">" -> <<"&", "g", "t", ";">>
                       [] c = "\"" -> <<"&", "q", "u", "o", "t", ";">>
                       [] c = "'" -> <<"&", "#", "0", "3", "9", ";">>
                       [] OTHER -> <<c>>
        esc[k \in 0..Len(unsafe)] ==
            IF k = 0 THEN <<>> ELSE esc[k - 1] \o entity(unsafe[k])
    IN esc[Len(unsafe)]

GenPlaceholder == [kind |-> "placeholder", cls |-> "", text |-> <<>>]

GenLoading == [kind |-> "loading-message", cls |-> "", text |-> <<>>]

GenError(msg) == [kind |-> "error-message", cls |-> "", text |-> msg]

GenConnectError == GenError(<<"Error connecting to server. Please try again.">>)

\* the page of the second script after DOMContentLoaded, lines 647-910
ToolsStart ==
    /\ activeTab = "editor"
    /\ codeEditorElement \in (IF page = "tools" THEN BOOLEAN ELSE {TRUE})
    /\ generateBtn = [k \in GenKinds |-> [hasEventListener |-> FALSE]]
    /\ generated = [k \in GenKinds |-> GenPlaceholder]
    /\ actBtn = [k \in GenKinds |-> [disabled |-> TRUE, listener |-> Absent]]
    /\ genCalls = <<>>
    /\ clipboard = <<>>
    /\ downloads = <<>>
    /\ generations = [k \in GenKinds |-> [started |-> 0, last |-> Absent]]

\* the click listener of a tab link, lines 669-706, with initTechSpecTab,
\* lines 709-722, and initTestCasesTab, lines 790-803
ClickTab ==
    /\ page = "tools"
    /\ \E targetId \in Tabs :
         /\ activeTab' = targetId
         /\ generateBtn' =
               IF targetId = "tech-spec"
               THEN [generateBtn EXCEPT !["spec"].hasEventListener = TRUE]
               ELSE IF targetId = "test-cases"
               THEN [generateBtn EXCEPT !["tests"].hasEventListener = TRUE]
               ELSE generateBtn
    /\ UNCHANGED <<page, codeEditorElement, generated, actBtn, genCalls, clipboard,
                   downloads, generations, alerts, ghostVars, OffTools>>

\* a generation request leaves: lines 741-758 and lines 820-836
GenStart(k, body) ==
    /\ generated' = [generated EXCEPT ![k] = GenLoading]
    /\ generations' = [generations EXCEPT ![k].started = @ + 1]
    /\ genCalls' = Append(genCalls,
           [k |-> k, id |-> generations[k].started + 1, pc |-> "fetch", body |-> body,
            sent |-> <<GenUrl[k]>>, failed |-> FALSE, errs |-> 0])
    /\ UNCHANGED alerts

GenRefused(msg) ==
    /\ alerts' = Append(alerts, <<msg>>)
    /\ UNCHANGED <<generated, generations, genCalls>>

\* generateTechSpec up to its fetch, lines 724-758: click on the generate
\* button of the specification tab, the description field holding what the
\* user typed and no section ticked
ClickGenerateSpec ==
    /\ page = "tools" /\ generateBtn["spec"].hasEventListener
    /\ acts["user"] < MaxActions
    /\ acts' = Bump("user")
    /\ \E typed \in MessageInputs, outputFormat \in OutputFormats :
         IF Trim(typed) = <<>>
         THEN GenRefused("Please enter a project description first.")
         ELSE GenStart("spec", [description |-> Trim(typed),
                                outputFormat |-> outputFormat, sections |-> <<>>])
    /\ UNCHANGED <<page, activeTab, codeEditorElement, generateBtn, actBtn, clipboard,
                   downloads, settled, lastFiles, lastDone, OffTools>>

\* generateTestCases up to its fetch, lines 806-836
ClickGenerateTests ==
    /\ page = "tools" /\ generateBtn["tests"].hasEventListener
    /\ acts["user"] < MaxActions
    /\ acts' = Bump("user")
    /\ IF ~codeEditorElement
       THEN GenRefused("Please write some code in the editor first.")
       ELSE GenStart("tests", [code |-> ToolsEditorText, language |-> "javascript",
                               framework |-> "jest"])
    /\ UNCHANGED <<page, activeTab, codeEditorElement, generateBtn, actBtn, clipboard,
                   downloads, settled, lastFiles, lastDone, OffTools>>

\* the catch blocks of lines 785-788 and 861-864
GenCatch(i, failed) ==
    /\ generated' = [generated EXCEPT ![genCalls[i].k] = GenConnectError]
    /\ genCalls' = RemoveAt(genCalls, i)
    /\ settled' = Settle("generate", [genCalls[i] EXCEPT !.failed = failed, !.errs = @ + 1])
    /\ lastDone' = Done("generate", genCalls[i].pc = "json",
                         IF genCalls[i].pc = "json" THEN "bad" ELSE "none", genCalls[i].k)
    /\ UNCHANGED <<page, activeTab, codeEditorElement, generateBtn, actBtn, clipboard,
                   downloads, generations, alerts, acts, lastFiles, OffTools>>

\* a fetch of line 748 or 826 settles: rejected, or answered with any status
GenFetchSettles ==
    /\ page = "tools"
    /\ \E i \in 1..Len(genCalls) :
         /\ genCalls[i].pc = "fetch"
         /\ \/ GenCatch(i, TRUE)
            \/ /\ genCalls' = [genCalls EXCEPT ![i].pc = "json"]
               /\ UNCHANGED <<page, activeTab, codeEditorElement, generateBtn, generated,
                              actBtn, clipboard, downloads, generations, alerts,
                              ghostVars, OffTools>>

\* the bodies a generation response can carry: an error, a content, or neither
GenData ==
    {[error |-> Some(<<"e">>), content |-> Absent], [error |-> Absent, content |-> Absent]}
    \cup {[error |-> Absent, content |-> Some(c)] : c \in Contents}

\* the listener a first successful generation adds to the download button,
\* lines 777-782, or to the copy button, lines 852-858: it holds the data of
\* that response
hasEventListener(btn, closure) ==
    [disabled |-> FALSE,
     listener |-> IF btn.listener.some THEN btn.listener ELSE Some(closure)]

\* response.json() settles, then lines 760-783 or lines 838-859
GenBody ==
    /\ page = "tools"
    /\ \E i \in 1..Len(genCalls) :
         /\ genCalls[i].pc = "json"
         /\ \/ GenCatch(i, FALSE)
            \/ \E data \in GenData :
                 LET k == genCalls[i].k
                     outputFormat == IF k = "spec" THEN genCalls[i].body.outputFormat
                                     ELSE "none"
                 IN IF ~data.error.some /\ ~data.content.some
                    THEN GenCatch(i, FALSE)
                    ELSE /\ IF data.error.some
                            THEN /\ generated' = [generated EXCEPT ![k] =
                                        GenError(<<"Error: ">> \o escapeHtml(data.error.v))]
                                 /\ UNCHANGED <<actBtn, generations>>
                            ELSE /\ generated' = [generated EXCEPT ![k] =
                                        [kind |-> "pre",
                                         cls |-> IF k = "tests" THEN "code-content"
                                                 ELSE IF outputFormat = "markdown"
                                                 THEN "markdown-content" ELSE "",
                                         text |-> escapeHtml(data.content.v)]]
                                 /\ actBtn' = [actBtn EXCEPT ![k] = hasEventListener(@,
                                        [content |-> data.content.v,
                                         outputFormat |-> outputFormat])]
                                 /\ generations' = [generations EXCEPT ![k].last =
                                        Some([id |-> genCalls[i].id,
                                              content |-> data.content.v])]
                         /\ genCalls' = RemoveAt(genCalls, i)
                         /\ settled' = Settle("generate", genCalls[i])
                         /\ lastDone' = Done("generate", TRUE, "data", k)
                         /\ UNCHANGED <<page, activeTab, codeEditorElement, generateBtn,
                                        clipboard, downloads, alerts, acts, lastFiles,
                                        OffTools>>

\* a click on the enabled copy button runs its listener, lines 853-856:
\* copyToClipboard, lines 868-875, and the alert
ClickCopyTests ==
    /\ page = "tools" /\ ~actBtn["tests"].disabled
    /\ Len(clipboard) < MaxCopies
    /\ clipboard' = Append(clipboard, actBtn["tests"].listener.v.content)
    /\ alerts' = Append(alerts, <<"Tests copied to clipboard!">>)
    /\ UNCHANGED <<page, activeTab, codeEditorElement, generateBtn, generated, actBtn,
                   genCalls, downloads, generations, ghostVars, OffTools>>

\* a click on the enabled download button runs its listener, lines 778-780:
\* downloadSpec is called with the content and the format the listener holds
ClickDownloadSpec ==
    /\ page = "tools" /\ ~actBtn["spec"].disabled
    /\ Len(downloads) < MaxCopies
    /\ downloads' = Append(downloads, actBtn["spec"].listener.v)
    /\ UNCHANGED <<page, activeTab, codeEditorElement, generateBtn, generated, actBtn,
                   genCalls, clipboard, generations, alerts, ghostVars, OffTools>>

NextTools ==
    \/ ClickTab \/ ClickGenerateSpec \/ ClickGenerateTests
    \/ GenFetchSettles \/ GenBody \/ ClickCopyTests \/ ClickDownloadSpec

NextMain ==
    \/ MainEditorReady \/ MainWelcome \/ MainTypeNextChar
    \/ MainSendMessage \/ MainChatFetchSettles \/ MainChatBody \/ MainClearChat
    \/ MainClickSubmit \/ MainAnalyzeFetchSettles \/ MainAnalyzeBody
    \/ MainClickRun \/ MainRunHealthSettles \/ MainRunExecuteSettles \/ MainRunBody
    \/ MainClearOutput \/ MainUploadFile \/ MainReadSettles

Pages == {"dashboard", "tools", "chat", "main"}

\* no page loaded: the state of the specifications of single functions
UiIdle ==
    /\ page = "none"
    /\ DashStart /\ ExportStart /\ ToolsStart /\ ChatStart /\ MainStart /\ EditorStart
    /\ GhostStart

Init ==
    /\ page \in Pages
    /\ DashStart /\ ExportStart /\ ToolsStart /\ ChatStart /\ MainStart /\ EditorStart
    /\ GhostStart
    /\ RenderIdle /\ ParseIdle

Next == NextDashboard \/ NextTools \/ NextChat \/ NextMain

Spec == Init /\ [][Next]_vars

\* the timers of the reveals keep firing: a pending setTimeout callback of
\* part_001 line 98 or main.js line 231 is run by the event loop
\* The two pages that reveal messages are loaded.
InitTimers ==
    /\ page \in {"chat", "main"}
    /\ DashStart /\ ExportStart /\ ToolsStart /\ ChatStart /\ MainStart /\ EditorStart
    /\ GhostStart
    /\ RenderIdle /\ ParseIdle

NextTimers == NextChat \/ NextMain

SpecTimers ==
    /\ InitTimers /\ [][NextTimers]_vars
    /\ WF_<<chatMessages, isAiTyping>>(ChatTypeNextChar)
    /\ WF_mainChat(MainTypeNextChar)


\* --------------------------------------- the renderer as a called function
InitRender ==
    /\ \/ renderIn \in Trees /\ iconIn = <<"a">>
       \/ renderIn = Absent /\ iconIn \in IconNames
    /\ renderOut = <<>>
    /\ iconOut = Null
    /\ ParseIdle
    /\ UiIdle

\* items.sort(...) with folders first: sorts the array in place
SortedFoldersFirst(items) ==
    IF ~items.some THEN items
    ELSE Some(SelectSeq(items.v, LAMBDA it : it.type = "dir") \o
              SelectSeq(items.v, LAMBDA it : it.type # "dir"))

CallRenderFileTreeSortingInPlace ==
    /\ Len(renderOut) < 2
    /\ renderIn' = SortedFoldersFirst(renderIn)
    /\ renderOut' = Append(renderOut, renderFileTree(renderIn'))
    /\ UNCHANGED <<iconIn, iconOut, parseVars, uiVars>>

\* one call of renderFileTree(renderIn); the results of successive calls are
\* kept in call order
CallRenderFileTree ==
    /\ Len(renderOut) < 2
    /\ renderOut' = Append(renderOut, renderFileTree(renderIn))
    /\ UNCHANGED <<renderIn, iconIn, iconOut, parseVars, uiVars>>

CallGetFileIconClass ==
    /\ iconOut = Null
    /\ iconOut' = getFileIconClass(iconIn)
    /\ UNCHANGED <<renderIn, renderOut, iconIn, parseVars, uiVars>>

NextRender == CallRenderFileTree \/ CallGetFileIconClass

SpecRender == InitRender /\ [][NextRender]_vars

\* ----------------------------------------- the parser, one line per step
InitParse ==
    /\ RenderIdle
    /\ UiIdle
    /\ text \in Listings \cup {Absent}
    /\ lines = <<>> /\ lineNo = 0 /\ tree = <<>>
    /\ stack = <<RootFrame>> /\ pathPrefix = <<>> /\ pstate = "idle"

\* entry: a non-string input is a ParseError; otherwise the lines are
\* retained and the stack starts at the root frame
ParseBegin ==
    /\ pstate = "idle" /\ text.some
    /\ lines' = RetainedLines(text.v)
    /\ lineNo' = 0
    /\ tree' = ParseStart.tree
    /\ stack' = ParseStart.stack
    /\ pathPrefix' = ParseStart.pathPrefix
    /\ pstate' = "parsing"
    /\ UNCHANGED <<text, renderVars, uiVars>>

ParseReject ==
    /\ pstate = "idle" /\ ~text.some
    /\ pstate' = "ParseError"
    /\ UNCHANGED <<text, lines, lineNo, tree, stack, pathPrefix, renderVars, uiVars>>

ParseLine ==
    /\ pstate = "parsing" /\ lineNo < Len(lines)
    /\ LET st == ParseStep([tree |-> tree, stack |-> stack, pathPrefix |-> pathPrefix],
                           lines[lineNo + 1])
       IN /\ tree' = st.tree
          /\ stack' = st.stack
          /\ pathPrefix' = st.pathPrefix
    /\ lineNo' = lineNo + 1
    /\ UNCHANGED <<text, lines, pstate, renderVars, uiVars>>

ParseEnd ==
    /\ pstate = "parsing" /\ lineNo = Len(lines)
    /\ pstate' = "done"
    /\ UNCHANGED <<text, lines, lineNo, tree, stack, pathPrefix, renderVars, uiVars>>

NextParse == ParseBegin \/ ParseReject \/ ParseLine \/ ParseEnd

SpecParse == InitParse /\ [][NextParse]_vars

\* ------------------------------------------------- claims on the renderer
\* the file-item elements of one level of markup, in document order
RowsOf(kids) == SelectSeq(kids, LAMBDA e : e.tag = "file-item")

FoldersFirst(kids) ==
    LET rows == RowsOf(kids)
    IN \A i, j \in 1..Len(rows) :
          (i < j /\ rows[i].kind = "file") => rows[j].kind # "folder"

RECURSIVE FoldersFirstAtEveryLevel(_)
FoldersFirstAtEveryLevel(kids) ==
    /\ FoldersFirst(kids)
    /\ \A i \in 1..Len(kids) :
          kids[i].tag = "file-children" => FoldersFirstAtEveryLevel(kids[i].kids)

\* C1: in the markup renderFileTree produces, at every nesting level all
\* folder items come before all file items of that level, whatever the names
\* and the order of the input.
C1_FoldersBeforeFiles ==
    \A k \in 1..Len(renderOut) :
        renderOut[k].tag = "file-tree" => FoldersFirstAtEveryLevel(renderOut[k].kids)

\* C2: renderFileTree returns the "No files found" placeholder, never an empty
\* file-tree container, for an empty or null/undefined input, and for a
\* non-empty input a file-tree container with one entry per root item, in order.
C2_PlaceholderOrOneEntryPerRoot ==
    \A k \in 1..Len(renderOut) :
        LET out == renderOut[k]
        IN IF ~renderIn.some \/ renderIn.v = <<>>
           THEN out = NoFilesPlaceholder
           ELSE /\ out.tag = "file-tree"
                /\ Len(RowsOf(out.kids)) = Len(renderIn.v)
                /\ \A i \in 1..Len(renderIn.v) :
                      /\ RowsOf(out.kids)[i].name = renderIn.v[i].name
                      /\ RowsOf(out.kids)[i].path = renderIn.v[i].path

C2_Witness == renderIn.some /\ renderIn.v = <<>> /\ Len(renderOut) > 0

\* C6: the category computed for a file name is one of the fixed category
\* strings, and it is "text" for every extension that is no key of the table.
C6_IconClassTotal ==
    iconOut # Null =>
        /\ iconOut \in Categories
        /\ toLowerCase(SplitPop(iconIn)) \notin DOMAIN iconMap => iconOut = "text"

ParserState == [tree |-> tree, stack |-> stack, pathPrefix |-> pathPrefix]

NoSeparator(name) == name # <<>> /\ \A i \in 1..Len(name) : name[i] # "/"

RECURSIVE PathsAreJoins(_, _)
\* every file below nodes has the path "/" + join of the enclosing folders'
\* clean names (anc, outermost first) and its own name
PathsAreJoins(nodes, anc) ==
    \A i \in 1..Len(nodes) :
        IF nodes[i].kind = "file"
        THEN nodes[i].path = <<"/">> \o JoinSlash(Append(anc, nodes[i].name))
        ELSE PathsAreJoins(nodes[i].children, Append(anc, nodes[i].name))

RECURSIVE OneLeadingSeparator(_, _)
\* every file below nodes whose own and enclosing names satisfy ok(_) has a
\* path with exactly one leading separator and no trailing one
OneLeadingSeparator(nodes, named) ==
    \A i \in 1..Len(nodes) :
        IF nodes[i].kind = "file"
        THEN (named /\ NoSeparator(nodes[i].name)) =>
                LET p == nodes[i].path
                IN p[1] = "/" /\ p[2] # "/" /\ p[Len(p)] # "/"
        ELSE OneLeadingSeparator(nodes[i].children, named /\ NoSeparator(nodes[i].name))

RECURSIVE OneLeadingSeparatorAlways(_)
OneLeadingSeparatorAlways(nodes) ==
    \A i \in 1..Len(nodes) :
        IF nodes[i].kind = "file"
        THEN LET p == nodes[i].path
             IN p[1] = "/" /\ Len(p) > 1 /\ p[2] # "/" /\ p[Len(p)] # "/"
        ELSE OneLeadingSeparatorAlways(nodes[i].children)

\* C8 as stated: the path of each parsed file is "/" followed by the
\* slash-join of the clean names of its enclosing folders and its own name,
\* with exactly one leading separator and no trailing one.
C8_PathIsJoinOneSeparator ==
    PathsAreJoins(tree, <<>>) /\ OneLeadingSeparatorAlways(tree)

\* C8 amended: the path of each parsed file is "/" followed by the slash-join
\* of the clean names of its enclosing folders and its own name; it has
\* exactly one leading separator and no trailing one when each of those names
\* is non-empty and holds no separator.
C8_PathIsJoin ==
    PathsAreJoins(tree, <<>>) /\ OneLeadingSeparator(tree, TRUE)

C8_Witness ==
    /\ pstate = "done" /\ Len(tree) = 1 /\ tree[1].kind = "folder"
    /\ Len(tree[1].children) = 1 /\ tree[1].children[1].kind = "folder"
    /\ Len(tree[1].children[1].children) = 1
    /\ tree[1].children[1].children[1].kind = "file"

NonSentinel(ls) == SelectSeq(ls, LAMBDA l : ~IsSentinel(Trim(l)))

\* C9: a sentinel line produces no node and leaves stack and prefix alone:
\* after any number of lines, the tree, the stack and the path prefix are
\* those of the same lines with the sentinel lines taken out.
C9_SentinelIsTransparent ==
    pstate \in {"parsing", "done"} =>
        ParserState = ParseLines(ParseStart, NonSentinel(SubSeq(lines, 1, lineNo)))

C9_Witness ==
    /\ pstate = "done" /\ Len(lines) = 3
    /\ IsFolderName(Trim(lines[1])) /\ LeadingSpaces(lines[1]) = 0
    /\ IsSentinel(Trim(lines[2])) /\ LeadingSpaces(lines[2]) = 0
    /\ ~IsSentinel(Trim(lines[3])) /\ LeadingSpaces(lines[3]) = 1
    /\ Len(tree) = 1 /\ Len(tree[1].children) = 1

RECURSIVE ChildrenDeeper(_)
\* every node below nodes is indented strictly more than its folder
ChildrenDeeper(nodes) ==
    \A i \in 1..Len(nodes) :
        nodes[i].kind = "folder" =>
            /\ \A j \in 1..Len(nodes[i].children) :
                  nodes[i].children[j].indent > nodes[i].indent
            /\ ChildrenDeeper(nodes[i].children)

\* the folder whose children the frame's container is
FrameFolder(f) == ContainerAt(tree, Front(f.container))[f.container[Len(f.container)]]

\* C10: every frame whose indent is >= the line's indent is popped before the
\* node is appended: no node is the child of a folder of the same or a deeper
\* indentation, after a node line no frame below the top is as deep as the
\* line, and the path prefix has one segment per open folder frame (it loses
\* one segment per pop), each the clean name of that frame's folder.
C10_PopsBeforeAppend ==
    pstate \in {"parsing", "done"} =>
        /\ ChildrenDeeper(tree)
        /\ \A i \in 2..Len(stack) : stack[i - 1].indentLevel < stack[i].indentLevel
        /\ Len(pathPrefix) = Len(stack) - 1
        /\ \A i \in 2..Len(stack) :
              /\ FrameFolder(stack[i]).kind = "folder"
              /\ FrameFolder(stack[i]).name = pathPrefix[i - 1]
              /\ FrameFolder(stack[i]).indent = stack[i].indentLevel
        /\ (lineNo > 0 /\ ~IsSentinel(Trim(lines[lineNo]))) =>
              \A i \in 1..Len(stack) :
                  /\ stack[i].indentLevel <= LeadingSpaces(lines[lineNo])
                  /\ i < Len(stack) => stack[i].indentLevel < LeadingSpaces(lines[lineNo])

\* two frames are popped by one line
C10_Witness ==
    /\ pstate = "parsing" /\ lineNo = 3 /\ Len(stack) = 1 /\ pathPrefix = <<>>
    /\ Len(tree) = 2 /\ tree[1].kind = "folder" /\ Len(tree[1].children) = 1
    /\ tree[1].children[1].kind = "folder"

\* ------------------------------------------------ claims on the dashboard
\* C3: after every successful repository analysis the file explorer shows
\* exactly the tree carried by that response, and nothing rendered from an
\* earlier analysis remains, also when the response carries no file list.
C3_ExplorerShowsResponseTree ==
    [][acts'["analysisOk"] # acts["analysisOk"] =>
          IF lastFiles'.some
          THEN fileExplorer' = updateFileExplorer(lastFiles')
          ELSE fileExplorer'.tag # "file-tree"]_vars

\* C4: each rendered file item and each folder toggle carries exactly one
\* click handler, after any sequence of renders and resets.
C4_OneHandlerEach ==
    fileExplorer.tag = "file-tree" =>
        LET rows == AllRows(fileExplorer.kids)
        IN \A i \in 1..Len(rows) :
              rows[i].clickHandlers = 1 /\ rows[i].toggleHandlers = 1

\* the explorer holds the tree of a second analysis
C4_Witness ==
    /\ acts["analysisOk"] = 2
    /\ fileExplorer.tag = "file-tree"
    /\ Len(AllRows(fileExplorer.kids)) >= 2

\* ------------------------------------------------- claims on failed calls
NoRepeat(s) == \A i, j \in 1..Len(s) : s[i] = s[j] => i = j

Account(c) == [sent |-> c.sent, failed |-> c.failed, errs |-> c.errs]

Accounts(calls) == {Account(calls[k]) : k \in 1..Len(calls)}

\* the backend calls that have not settled yet
InFlight ==
    Accounts(IF analysis.pc = "idle" THEN <<>> ELSE <<analysis>>)
        \cup Accounts(loads) \cup Accounts(sends) \cup Accounts(aiCalls)
        \cup Accounts(chatCalls) \cup Accounts(submits) \cup Accounts(runs)

\* C5: a call of handleRepoAnalysis, loadFileContent, handleSendMessage,
\* getAiResponse, sendChatMessage, analyzeCode or runCode that failed has put
\* exactly one error message on the page, and no call sends a request to the
\* same endpoint twice; a call that has not settled has shown no error yet.
C5_FailedCallReportedOnce ==
    /\ \A c \in settled : NoRepeat(c.sent) /\ (c.failed => c.errs = 1)
    /\ \A c \in InFlight : NoRepeat(c.sent) /\ c.errs = 0

\* a failed getAiResponse has been reported while another call is in flight
C5_Witness ==
    /\ \E c \in settled : c.h = "getAiResponse" /\ c.failed /\ c.errs = 1
    /\ aiCalls # <<>>

\* ------------------------------------------- claims on the parsed paths
RECURSIVE FilePaths(_)
\* the paths of the file nodes below nodes, in tree order
FilePaths(nodes) ==
    IF nodes = <<>> THEN <<>>
    ELSE (IF Head(nodes).kind = "file" THEN <<Head(nodes).path>>
          ELSE FilePaths(Head(nodes).children)) \o FilePaths(Tail(nodes))

RECURSIVE SiblingsDistinct(_)
\* no two files of one container share a name, nor do two of its folders
SiblingsDistinct(nodes) ==
    /\ \A i, j \in 1..Len(nodes) :
          (i < j /\ nodes[i].kind = nodes[j].kind) => nodes[i].name # nodes[j].name
    /\ \A i \in 1..Len(nodes) :
          nodes[i].kind = "folder" => SiblingsDistinct(nodes[i].children)

RECURSIVE NamesPlain(_)
\* every name below nodes is non-empty and holds no separator
NamesPlain(nodes) ==
    \A i \in 1..Len(nodes) :
        /\ NoSeparator(nodes[i].name)
        /\ nodes[i].kind = "folder" => NamesPlain(nodes[i].children)

\* C11 as stated: in the tree of one parse no two file nodes have the same
\* path, for every input text.
C11_PathsUnique == NoRepeat(FilePaths(tree))

\* C11, amended: in the tree of one parse no two file nodes have the same
\* path, when no two sibling files and no two sibling folders share a name
\* and every name is non-empty and holds no separator.
C11_PathsUniqueForDistinctNames ==
    (SiblingsDistinct(tree) /\ NamesPlain(tree)) => NoRepeat(FilePaths(tree))

\* a finished parse of distinct plain names with files at two levels
C11_Witness ==
    /\ pstate = "done"
    /\ SiblingsDistinct(tree) /\ NamesPlain(tree)
    /\ Len(FilePaths(tree)) >= 2

\* ------------------------------------------- claims on the chat module
Last(q) == q[Len(q)]

\* C12: every request the chat module sends carries message, code, language
\* and history, the history being the whole chatHistory at send time with the
\* user message being sent as its last entry; and the reply shown for a
\* response that was read is its response field, or the fallback text when
\* that field is empty.
C12_RequestShapeAndReply ==
    [][/\ Len(aiCalls') > Len(aiCalls) =>
             LET c == Last(aiCalls')
             IN /\ DOMAIN c.body = {"message", "code", "language", "history"}
                /\ c.body.history = chatHistory'
                /\ Last(c.body.history) = [role |-> "user", content |-> c.body.message]
                /\ c.sent = <<"/chat">>
       /\ (lastDone'.n # lastDone.n /\ lastDone'.h = "getAiResponse"
             /\ lastDone'.body = "data") =>
             /\ Last(chatMessages').cls = "ai-message"
             /\ Last(chatMessages').text =
                   IF lastDone'.data.response = <<>> THEN ChatTrouble
                   ELSE lastDone'.data.response
             /\ Len(chatMessages') = Len(chatMessages) + 1]_vars

\* the fallback text has been shown for a second request, whose history held
\* the first exchange
C12_Witness ==
    /\ lastDone.h = "getAiResponse" /\ lastDone.body = "data"
    /\ lastDone.data.response = <<>>
    /\ Last(chatMessages).text = ChatTrouble
    /\ lastDone.n = 2

\* ------------------------------------------------- claims on main.js
\* a step on which an invocation of runCode ends: at one of its returns or
\* by the exception of line 248 (the click), or after its last response
RunCodeEnds ==
    \/ MainClickRun /\ runs' = runs
    \/ lastDone'.n # lastDone.n /\ lastDone'.h = "runCode"

\* the invocation that ends on this step read an OK execute response whose
\* success field is true
EndsWithSuccess ==
    /\ lastDone'.n # lastDone.n /\ lastDone'.h = "runCode"
    /\ lastDone'.httpOk /\ lastDone'.body = "data"
    /\ lastDone'.data.success

\* C13: when the last invocation of runCode in flight ends, the execution
\* status is 'Success' if that invocation read an OK execute response with a
\* true success field and 'Error' otherwise, so never 'Running'.
C13_StatusOfLastRun ==
    [][(RunCodeEnds /\ runs' = <<>>) =>
          executionStatus'.text = IF EndsWithSuccess THEN "Success" ELSE "Error"]_vars

\* the same property for the invocations that find an editor: line 239 tests
\* window.editor against undefined only, and line 248 throws on null
C13_StatusOfLastRunWithEditor ==
    [][(RunCodeEnds /\ runs' = <<>> /\ windowEditor # "null") =>
          executionStatus'.text = IF EndsWithSuccess THEN "Success" ELSE "Error"]_vars

\* ------------------------------------------------ claims on part_000
\* the change listener has taken a file on this step
FileTaken == MainUploadFile /\ Len(reads') > Len(reads)

\* a read has ended on this step with the file's text
FileRead == lastDone'.n # lastDone.n /\ lastDone'.h = "FileReader" /\ lastDone'.httpOk

\* C14: a file whose extension is no key of the extension table leaves the
\* selected language and the editor mode as they were, and its text is still
\* loaded into the editor; a file whose extension is a key makes the selected
\* language the mapped one, on the step that takes the file and so before
\* the content is loaded.
C14_LanguageFollowsTable ==
    [][/\ FileTaken =>
             LET ext == getFileExtension(Last(reads').name)
             IN IF ext \in DOMAIN extensionMap
                THEN languageSelect' = extensionMap[ext]
                ELSE languageSelect' = languageSelect /\ editorMode' = editorMode
       /\ FileRead => editorValue' = Some(lastDone'.data.text)]_vars

\* the same property for the extensions that name no inherited property, in
\* a page whose editor has been created
C14_LanguageFollowsTablePlainNames ==
    [][/\ FileTaken =>
             LET ext == getFileExtension(Last(reads').name)
             IN IF ext \in DOMAIN extensionMap
                THEN languageSelect' = extensionMap[ext]
                ELSE ext \notin DOMAIN ObjectPrototype =>
                        languageSelect' = languageSelect /\ editorMode' = editorMode
       /\ (FileRead /\ windowEditor = "editor") =>
             editorValue' = Some(lastDone'.data.text)]_vars

\* ------------------------------- claims on concurrent chat requests
Range(q) == {q[k] : k \in 1..Len(q)}

\* the typing indicators among the children of .chat-messages
Indicators(dom) == {e.id : e \in {x \in Range(dom) : x.cls = "typing"}}

\* the indicators of the getAiResponse invocations that take a step here
Stepping == {c.loading : c \in Range(aiCalls) \ Range(aiCalls')}

\* C15: a chat request whose HTTP response is OK (and readable) ends with the
\* response's text shown as the AI message, whatever becomes of the other
\* requests in flight; a request removes no indicator but its own, and none
\* remains once all requests have finished.
C15_OkReplyShownOwnIndicator ==
    [][/\ (lastDone'.n # lastDone.n /\ lastDone'.h = "getAiResponse"
             /\ lastDone'.httpOk /\ lastDone'.body # "bad") =>
             /\ lastDone'.body = "data"
             /\ Last(chatMessages').text = replyText(lastDone'.data.response)
       /\ (Indicators(chatMessages) \ Indicators(chatMessages')) \subseteq Stepping
       /\ (aiCalls # <<>> /\ aiCalls' = <<>>) => Indicators(chatMessages') = {}]_vars

\* the parts of the property taken one at a time
C15_OkReplyShown ==
    [][(lastDone'.n # lastDone.n /\ lastDone'.h = "getAiResponse"
          /\ lastDone'.httpOk /\ lastDone'.body # "bad") =>
          /\ lastDone'.body = "data"
          /\ Last(chatMessages').text = replyText(lastDone'.data.response)]_vars

C15_OwnIndicatorOnly ==
    [][(Indicators(chatMessages) \ Indicators(chatMessages')) \subseteq Stepping]_vars

C15_NoIndicatorLeft ==
    [][(aiCalls # <<>> /\ aiCalls' = <<>>) => Indicators(chatMessages') = {}]_vars

\* ------------------------------------- claims on the dashboard's calls
\* C16: in the dashboard at most one handleSendMessage invocation is in
\* flight at any time; between its start and its completion no second one can
\* be started, by the send button or by the Enter key.
C16_OneSendInFlight == Len(sends) <= 1

\* the thinking indicators with the given id among the chat's children
Thinking(chat, id) ==
    Len(SelectSeq(chat, LAMBDA e : e.cls = "thinking-animation" /\ e.id = id))

AiMessages(chat) == Len(SelectSeq(chat, LAMBDA e : e.cls = "ai-message"))

\* an invocation of handleSendMessage completes on this step
SendCompletes == lastDone'.n # lastDone.n /\ lastDone'.h = "handleSendMessage"

\* one indicator with the invocation's id is gone, or none was left to remove,
\* and one AI message, the response or the error text, has been appended
IndicatorGoneOneReply ==
    LET id == lastDone'.data.thinkingId
    IN /\ Thinking(chatContainer', id) =
             IF Thinking(chatContainer, id) = 0 THEN 0 ELSE Thinking(chatContainer, id) - 1
       /\ AiMessages(chatContainer') = AiMessages(chatContainer) + 1
       /\ Last(chatContainer') = aiMessage(lastDone'.data.response)

\* C17: whenever handleSendMessage completes, on the success path and on every
\* failure path, the thinking indicator it added has been removed from the
\* chat and exactly one AI message has been appended.
C17_IndicatorRemovedOneReply == [][SendCompletes => IndicatorGoneOneReply]_vars

\* the same property on the success path alone
C17_IndicatorRemovedOnSuccess ==
    [][(SendCompletes /\ lastDone'.body = "data") => IndicatorGoneOneReply]_vars

\* what the code pane shows: the editor's value, or the viewer's text when
\* there is no editor
Shown(editor, viewer) == IF editor.some THEN editor.v.value ELSE viewer

\* the paths of the selected file rows of the explorer
SelectedFiles ==
    IF fileExplorer.tag # "file-tree" THEN {}
    ELSE {r.path : r \in {x \in Range(AllRows(fileExplorer.kids)) :
                            x.selected /\ x.type = "file"}}

\* no file load has failed so far
AllLoadsAnswered == \A c \in settled : c.h = "loadFileContent" => ~c.failed

\* C18: when the last pending file load completes, every load having been
\* answered with its file's content, the code pane shows the content of the
\* file row selected last, whatever the order in which the responses of
\* earlier clicks arrived.
C18_ShowsLastSelected ==
    [][(lastDone'.n # lastDone.n /\ lastDone'.h = "loadFileContent"
          /\ lastDone'.body = "data" /\ loads' = <<>> /\ AllLoadsAnswered') =>
          \A path \in SelectedFiles :
             Shown(codeEditor', codeViewer') = [kind |-> "content", v |-> path]]_vars

\* what the code keeps instead: the pane shows the content of the response
\* that arrived last
C18_ShowsLastArrived ==
    [][(lastDone'.n # lastDone.n /\ lastDone'.h = "loadFileContent"
          /\ lastDone'.body = "data") =>
          Shown(codeEditor', codeViewer') = [kind |-> "content", v |-> lastDone'.data]]_vars

\* what resetToLandingScreen leaves, as far as the claim names it
LandingState ==
    /\ currentProjectId = Null
    /\ dashboardHidden
    /\ chatContainer = <<ChatWelcome>>
    /\ codeViewer = CodePlaceholder

\* an analysis succeeds on this step
AnalysisSucceeds ==
    lastDone'.n # lastDone.n /\ lastDone'.h = "handleRepoAnalysis" /\ lastDone'.body = "data"

\* C19: after resetToLandingScreen and until the next successful analysis,
\* currentProjectId is null, the dashboard is hidden and the chat container
\* and the code viewer hold their placeholders, whatever response or timer
\* started before the reset completes in between.
C19_ResetHolds == [][(LandingState /\ ~AnalysisSucceeds) => LandingState']_vars

\* the part of it that no late completion touches
C19_ProjectStaysNull ==
    [][(currentProjectId = Null /\ ~AnalysisSucceeds) => currentProjectId' = Null]_vars

\* a step of handleRepoAnalysis: its start, its alert, or one of its awaits
\* settling
AnalysisStep == ClickAnalyze \/ analysis' # analysis

\* C20: an analysis that fails (empty URL, fetch exception, non-OK response,
\* unparsable body) leaves currentProjectId, currentRepoUrl, the project label
\* and the file explorer as they were: no step of handleRepoAnalysis but the
\* one that reads a successful response changes any of them.
C20_FailedAnalysisChangesNothing ==
    [][(AnalysisStep /\ ~AnalysisSucceeds) =>
          UNCHANGED <<currentProjectId, currentRepoUrl, projectInfo, fileExplorer>>]_vars

\* an analysis has failed after an earlier one had succeeded, and the
\* project, its label and its tree are still there
C20_Witness ==
    /\ lastDone.h = "handleRepoAnalysis" /\ lastDone.body # "data"
    /\ currentProjectId # Null /\ currentRepoUrl # Null
    /\ projectInfo # NoProjectLabel
    /\ fileExplorer.tag = "file-tree"

\* ------------------------------------------- claims on the controls
\* the handler named h ends on this step
Ends(h) == lastDone'.n # lastDone.n /\ lastDone'.h = h

\* C21: every control that a request disables is enabled again when that
\* request has settled, on success and on every failure: the analyze button
\* after handleRepoAnalysis, the send button after handleSendMessage, the
\* submit button after analyzeCode, the export button after
\* fetchAndShowReports; and none is disabled while no request is under way.
C21_ControlsEnabledAgain ==
    [][/\ Ends("handleRepoAnalysis") => ~analyzeBtn'.disabled
       /\ Ends("handleSendMessage") => ~sendBtn'.disabled
       /\ Ends("analyzeCode") => ~submitBtn'.disabled
       /\ ClickExport => ~exportBtn'.disabled
       /\ analysis'.pc = "idle" => ~analyzeBtn'.disabled
       /\ sends' = <<>> => ~sendBtn'.disabled
       /\ submits' = <<>> => ~submitBtn'.disabled]_vars

\* an analysis has succeeded, a chat request has failed and the reports have
\* been shown: the three buttons of the dashboard are enabled
C21_Witness ==
    /\ \E c \in settled : c.h = "handleRepoAnalysis" /\ ~c.failed
    /\ \E c \in settled : c.h = "handleSendMessage" /\ c.failed
    /\ reportsModal
    /\ ~analyzeBtn.disabled /\ ~sendBtn.disabled /\ ~exportBtn.disabled

\* ------------------------------------------ claims on the chat of main.js
IsPrefix(p, q) == Len(p) <= Len(q) /\ SubSeq(q, 1, Len(p)) = p

\* the request was sent before the last clearChat: the history it was sent
\* with, its own user message included, is no longer how the history starts
SentBeforeClear(c) == ~IsPrefix(c.body.conversation_history, conversationHistory)

\* C22: after clearChat, conversationHistory holds no entry that stems from a
\* message sent before the clear: a step of a request sent before the clear,
\* the arrival of its reply included, adds nothing to the history.
C22_NoEntryFromBeforeClear ==
    [][\A c \in Range(chatCalls) \ Range(chatCalls') :
          SentBeforeClear(c) => conversationHistory' = conversationHistory]_vars

\* ------------------------------------ claims on the reveal of messages
\* some AI message of the chat module is only partly revealed
PartlyRevealed(dom) == \E e \in Range(dom) : e.cls = "ai-message" /\ e.i < Len(e.text)

\* some reveal of the chat module has a timer pending
RevealRunning(dom) == \E e \in Range(dom) : e.cls = "ai-message" /\ e.timer

\* C23: in the chat module isAiTyping is true whenever some AI message is only
\* partly revealed, also when two are being revealed at once, and it becomes
\* false only when no reveal is still running.
C23_TypingWhileRevealing ==
    [][/\ PartlyRevealed(chatMessages') => isAiTyping'
       /\ (isAiTyping /\ ~isAiTyping') => ~RevealRunning(chatMessages')]_vars

\* a reveal is running on the loaded page
Revealing ==
    \/ page = "chat" /\ RevealRunning(chatMessages)
    \/ page = "main" /\ \E e \in Range(mainChat) :
                           e.cls = "ai-message" /\ e.text.some /\ e.timer

\* every AI message of the loaded page shows its whole text, without cursor
\* span and without timer, and the chat module's flag is down
AllRevealed ==
    /\ page = "chat" =>
          /\ \A e \in Range(chatMessages) :
                e.cls = "ai-message" => e.i = Len(e.text) /\ ~e.timer
          /\ ~isAiTyping
    /\ page = "main" =>
          \A e \in Range(mainChat) :
             (e.cls = "ai-message" /\ e.text.some) =>
                e.index = Len(e.text.v) /\ ~e.timer /\ ~e.span

\* C24: every reveal terminates: once addAiMessage or animateTyping has been
\* started with a text (the empty text included) and timers keep firing, the
\* page comes to show every text whole, the inline indicator gone and, in the
\* chat module, isAiTyping false.
C24_RevealsTerminate == Revealing ~> AllRevealed

\* replies have been revealed to their end, the empty text among them on
\* the page of main.js
C24_Witness ==
    /\ AllRevealed /\ lastDone.n >= 1 /\ lastDone.body = "data"
    /\ \/ page = "chat" /\ Len(chatMessages) >= 3
       \/ page = "main" /\ \E e \in Range(mainChat) :
                              e.cls = "ai-message" /\ e.text = Some(<<>>)

\* ---------------------------------------------------------------------- C25
SendMessageStep == page = "chat" /\ acts'["user"] # acts["user"]

\* C25: a call of sendMessage made while isAiTyping is true, or with an input
\* that is empty after trimming, displays no message, leaves chatHistory and
\* the input text as they were and starts no request
C25_IgnoredSendChangesNothing ==
    [][(SendMessageStep /\ (isAiTyping \/ Trim(chatInput) = <<>>)) =>
          /\ chatMessages' = chatMessages
          /\ chatHistory' = chatHistory
          /\ chatInput' = chatInput
          /\ aiCalls' = aiCalls
          /\ isAiTyping' = isAiTyping]_vars

\* sendMessage was called with 'hi' in the input while the greeting was still
\* being revealed
C25_Witness ==
    /\ page = "chat" /\ acts["user"] >= 1
    /\ isAiTyping /\ chatInput = <<"h","i">>
    /\ Len(chatMessages) = 1 /\ chatMessages[1].i < Len(chatMessages[1].text)
    /\ aiCalls = <<>> /\ Len(chatHistory) = 1

\* ---------------------------------------------------------------------- C26
\* every invocation in flight has passed the checks in order: it was started
\* with code that is not blank, it asked /health first, and it has asked
\* /execute only once the health check was answered OK
RunsInOrder ==
    \A i \in 1..Len(runs) :
       /\ Trim(runs[i].body.code) # <<>>
       /\ runs[i].sent = IF runs[i].pc = "health" THEN <<"/health">>
                         ELSE <<"/health", "/execute">>

\* a click on the run button that starts no invocation: the editor or the
\* code check failed
RunRefused == MainClickRun /\ Len(runs') = Len(runs)

\* an invocation ends on this step at its health check
HealthFails ==
    /\ Ends("runCode") /\ ~lastDone'.httpOk /\ lastDone'.body = "none"
    /\ lastDone'.data = "health"

RunChecks(clicks) ==
    /\ RunsInOrder
    /\ (MainClickRun /\ Len(runs') > Len(runs)) => windowEditor = "editor"
    /\ (clicks /\ RunRefused) =>
          /\ executionStatus'.text = "Error"
          /\ \A i \in 1..Len(runs) : runs'[i].sent = runs[i].sent
    /\ HealthFails =>
          /\ executionStatus'.text = "Error"
          /\ \A i \in 1..Len(runs') : \E j \in 1..Len(runs) : runs'[i] = runs[j]

\* C26: runCode sends the execute request only after the editor was found,
\* the code was found not blank and the health check was answered OK, in this
\* order; when one of the three fails, no execute request is sent and the
\* execution status becomes 'Error'
C26_ExecuteOnlyAfterChecks == [][RunChecks(TRUE)]_vars

\* the same property for the clicks made in a page whose window.editor is not
\* null: line 239 tests window.editor against undefined only
C26_ExecuteOnlyAfterChecksWithEditor == [][RunChecks(windowEditor # "null")]_vars

\* ---------------------------------------------------------------------- C27
\* the generation of kind k started last has succeeded and none is in flight,
\* so that it is the most recent one in every sense
LatestIsNewest(k) ==
    /\ generations[k].last.some
    /\ generations[k].last.v.id = generations[k].started
    /\ \A i \in 1..Len(genCalls) : genCalls[i].k # k

ClickActsOnLatest(upTo) ==
    /\ (ClickCopyTests /\ LatestIsNewest("tests") /\ generations["tests"].started <= upTo) =>
          clipboard' = Append(clipboard, generations["tests"].last.v.content)
    /\ (ClickDownloadSpec /\ LatestIsNewest("spec") /\ generations["spec"].started <= upTo) =>
          /\ Len(downloads') = Len(downloads) + 1
          /\ SubSeq(downloads', 1, Len(downloads)) = downloads
          /\ Last(downloads').content = generations["spec"].last.v.content

\* C27: after any number of successful generations of tests, one click on the
\* copy button copies the tests of the most recent generation, once; after
\* any number of successful generations of a specification, one click on the
\* download button passes the content of the most recent one to downloadSpec,
\* once
C27_ClickActsOnLatest == [][ClickActsOnLatest(MaxActions)]_vars

\* the same property for the clicks made after a single generation
C27_ClickActsOnOnlyGeneration == [][ClickActsOnLatest(1)]_vars

\* ------------------------------------------- claims on the file explorer
RECURSIVE RowsWhere(_, _, _)
\* where the file-item rows are that satisfy P(row, list): list is the
\* file-children element that follows the row, Absent when none does
RowsWhere(kids, P(_, _), at) ==
    UNION {IF kids[i].tag = "file-item"
           THEN IF P(kids[i], IF i < Len(kids) /\ kids[i + 1].tag = "file-children"
                              THEN Some(kids[i + 1]) ELSE Absent)
                THEN {Append(at, i)} ELSE {}
           ELSE RowsWhere(kids[i].kids, P, Append(at, i)) : i \in 1..Len(kids)}

IsParentFolder(row, list) == row.type = "dir" /\ list.some

IsExpanded(row, list) == row.toggleExpanded

IsOpen(row, list) == list.some /\ ~list.v.collapsed

IsSelected(row, list) == row.selected

IsMismatch(row, list) == list.some /\ (list.v.collapsed <=> row.toggleExpanded)

Rows(el, P(_, _)) == IF el.tag = "file-tree" THEN RowsWhere(el.kids, P, <<>>) ELSE {}

\* the rows for which P holds in exactly one of the two states of the step
Flipped(P(_, _)) ==
    (Rows(fileExplorer, P) \ Rows(fileExplorer', P))
       \cup (Rows(fileExplorer', P) \ Rows(fileExplorer, P))

\* the toggle mark and the collapsed mark of the rows in s, and of no other
\* row, have changed on this step
FlipsBoth(s) == Flipped(IsExpanded) = s /\ Flipped(IsOpen) = s

\* C28: in every state of the file explorer the child list of a folder with
\* children is collapsed exactly when the folder's toggle is not marked
\* expanded; a click on the row or on the toggle of such a folder flips both
\* marks of that folder and no other mark, and a click on a file or on a
\* folder without children flips no mark
C28_CollapsedIffNotExpanded ==
    [][/\ Rows(fileExplorer, IsMismatch) = {} /\ Rows(fileExplorer', IsMismatch) = {}
       /\ ClickFileItem =>
             \E pos \in Rows(fileExplorer', IsSelected) :
                FlipsBoth(IF pos \in Rows(fileExplorer, IsParentFolder) THEN {pos} ELSE {})
       /\ ClickToggle =>
             \E pos \in Rows(fileExplorer, IsParentFolder) : FlipsBoth({pos})]_vars

\* a folder with children has been opened, and then another row clicked
C28_Witness ==
    /\ Rows(fileExplorer, IsOpen) # {}
    /\ Rows(fileExplorer, IsOpen) = Rows(fileExplorer, IsExpanded)
    /\ Rows(fileExplorer, IsSelected) # {}
    /\ Rows(fileExplorer, IsSelected) \cap Rows(fileExplorer, IsOpen) = {}

\* a folder without children has been clicked
C28_ChildlessFolderClicked ==
    /\ Rows(fileExplorer, IsParentFolder) = {} /\ Rows(fileExplorer, IsExpanded) = {}
    /\ \E pos \in Rows(fileExplorer, IsSelected) :
          ElementAt(fileExplorer.kids, pos).type = "dir"

\* ---------------------------------------------------------------------- C29
\* C29: in every state at most one file-tree item is marked selected; after
\* a click on an item's row that item, the one the click has loaded or
\* toggled, is the selected one and no other is; a click on a folder toggle
\* leaves the selection as it was
C29_OneSelected ==
    [][/\ Cardinality(Rows(fileExplorer, IsSelected)) <= 1
       /\ Cardinality(Rows(fileExplorer', IsSelected)) <= 1
       /\ ClickFileItem =>
             \E pos \in RowPositions(fileExplorer.kids) :
                /\ Rows(fileExplorer', IsSelected) = {pos}
                /\ Len(loads') > Len(loads) =>
                      Last(loads').path = ElementAt(fileExplorer.kids, pos).path
                /\ Flipped(IsExpanded) \subseteq {pos}
       /\ ClickToggle =>
             Rows(fileExplorer', IsSelected) = Rows(fileExplorer, IsSelected)]_vars

\* two files have been clicked one after the other, and one row is selected
C29_Witness ==
    /\ Len(loads) >= 2 /\ loads[1].path # loads[2].path
    /\ \E pos \in Rows(fileExplorer, IsSelected) :
          /\ Rows(fileExplorer, IsSelected) = {pos}
          /\ ElementAt(fileExplorer.kids, pos).path = Last(loads).path

====
